---- MODULE Spec2Model ----
(***************************************************************************)
(* Ledger state and remote synchronisation of simple-bookkeeping:          *)
(* the DropboxService adapter (src/services/dropbox.ts) and the App        *)
(* handlers that load, mutate and persist the ledger (src/types.ts).       *)
(*                                                                         *)
(* JavaScript runs one handler segment at a time: a step of the model is   *)
(* the synchronous segment between two awaits.  A remote call is issued    *)
(* at the end of one segment (its path and contents fixed at the call)     *)
(* and answered at the start of another; the answer is applied together    *)
(* with the continuation that awaited it.                                  *)
(***************************************************************************)
EXTENDS Integers, Sequences, FiniteSets, Bags, TLC

VARIABLES
    dbx,               \* DropboxService.dbx is non-null
    token,             \* localStorage holds dropbox_token
    svcProfile,        \* DropboxService.currentProfile
    remote,            \* the Dropbox store: path -> document
    isAuthenticated,   \* App state
    transactions,      \* App state
    settings,          \* App state
    profiles,          \* App state
    currentProfile,    \* App state
    editingTransaction,\* App state: the transaction being edited, or NoTx
    hasCheckedAuth,    \* App ref: initAuth has run
    inflight,          \* the bag of pending remote calls, each with the continuation awaiting it
    nextId,            \* ids drawn so far by uuidv4
    clicks,            \* user actions the session still has
    alertMsg,          \* what the last step told the user (alert), or "none"
    event,             \* what the last step was: the handler or the answered call
    check,             \* what checkFileExists answered in the last step, if it ran
    listing,           \* what getProfiles answered in the last step, if it ran
    halted,            \* profiles whose most recent load stopped with an error
    journal,           \* the collection a load or reset last set, the add, update
                       \* and remove calls made since, and the profiles the
                       \* in-memory collection comes from: read from, or changed under
    resolved,          \* DropboxService.getPath: the last call and the path it returned
    localSettings,     \* SettingsDialog state
    form,              \* TransactionForm state and the last call of onSubmit
    stats              \* Dashboard: the props, the month of the render, and the memo

ledgerVars == <<dbx, token, svcProfile, remote, isAuthenticated, transactions, settings,
                profiles, currentProfile, editingTransaction, hasCheckedAuth, inflight,
                nextId, clicks, alertMsg, event, check, listing, halted, journal>>
viewVars == <<resolved, localSettings, form, stats>>
vars == <<ledgerVars, viewVars>>

----------------------------------------------------------------------------
(* Bounds *)

MaxClicks == 2         \* actions of the authenticated user

----------------------------------------------------------------------------
(* Values *)

ProfileNames == {"Default", "Work", "Home"}
DATA_FILE == "bookkeeping_data.json"
SETTINGS_FILE == "settings.json"
REGISTRY_PATH == <<"profiles.json">>

Amounts == {1, 2}
Tx(i, a) == [id |-> i, amount |-> a]
NoTx == Tx(0, 0)

NoBalances == [a \in {} |-> 0]
\* DEFAULT_SETTINGS: the vocabularies are abbreviated to the account list, and
\* initialBalances is not set.
DEFAULT_SETTINGS == [commonSources |-> <<"Cash", "LinePay">>, initialBalances |-> NoBalances]
CustomSettings == [commonSources |-> <<"Cash">>, initialBalances |-> [a \in {"Cash"} |-> 100]]
SettingsInputs == {DEFAULT_SETTINGS, CustomSettings}

\* A JSON document of the store; Absent is a path that holds none.
Absent == [kind |-> "absent", txs |-> <<>>, st |-> DEFAULT_SETTINGS, names |-> <<>>]
TxDoc(ts) == [kind |-> "transactions", txs |-> ts, st |-> DEFAULT_SETTINGS, names |-> <<>>]
SettingsDoc(s) == [kind |-> "settings", txs |-> <<>>, st |-> s, names |-> <<>>]
RegistryDoc(ns) == [kind |-> "registry", txs |-> <<>>, st |-> DEFAULT_SETTINGS, names |-> ns]

getPath(profile, filename) ==
    IF profile = "Default" THEN <<filename>> ELSE <<"profiles", profile, filename>>

\* The profile whose resource a path is.
ProfileOf(path) == IF Len(path) = 3 THEN path[2] ELSE "Default"

Paths ==
    {getPath(p, f) : p \in ProfileNames, f \in {DATA_FILE, SETTINGS_FILE}} \cup {REGISTRY_PATH}

\* How a remote call can end.  A failed call carries the HTTP status of the
\* Dropbox SDK error: none for a network failure, 401 for a rejected token.
Failures == {"ok", "transport", "auth"}
ReadReply(f, path) ==
    IF f # "ok" THEN f
    ELSE IF remote[path].kind = "absent" THEN "path_not_found" ELSE "found"
ErrStatus(reply) == IF reply = "auth" THEN 401 ELSE 0
ErrTag(reply) == IF reply = "auth" THEN "invalid_access_token" ELSE "none"

\* A pending call: the continuation (pc), the path the call was issued for, the
\* contents of an upload, and the profile that was active when its load began.
\* A call of createProfile, renameProfile or deleteProfile carries the profile
\* it is about as owner and, for a rename, the new name as arg.
ProfileTask(pc, path, doc, owner, arg) ==
    [pc |-> pc, path |-> path, doc |-> doc, owner |-> owner, arg |-> arg]
Task(pc, path, doc, owner) == ProfileTask(pc, path, doc, owner, "none")
Idle == Task("idle", <<>>, Absent, "Default")

Event(op, reply, path) == [op |-> op, reply |-> reply, path |-> path]
\* A call of add, update or remove, with the transactions it was given.
Call(op, txs) == [op |-> op, txs |-> txs]
NoCall == Call("none", <<>>)
NoCheck == [file |-> "none", cause |-> "none", result |-> "none"]
Check(file, cause, result) == [file |-> file, cause |-> cause, result |-> result]
NoListing == [cause |-> "none", threw |-> FALSE, list |-> <<>>]
Listing(cause, r) == [cause |-> cause, threw |-> r.threw, list |-> r.list]

\* The pending calls after the continuation of call t has run and left call
\* new pending; Idle stands for no call.
Pending(t, new) ==
    LET rest == IF t = Idle THEN inflight ELSE inflight (-) SetToBag({t})
    IN  IF new = Idle THEN rest ELSE rest (+) SetToBag({new})

\* One more user action of the session.
Click == clicks > 0 /\ clicks' = clicks - 1

\* Array.includes, the map of renameProfile and the filter of deleteProfile.
Includes(list, name) == \E i \in 1..Len(list) : list[i] = name
Renamed(list, oldName, newName) ==
    [i \in 1..Len(list) |-> IF list[i] = oldName THEN newName ELSE list[i]]
Without(list, name) == SelectSeq(list, LAMBDA p : p # name)

\* The folder of a profile and what the store holds in it.
FolderPath(name) == <<"profiles", name>>
FolderExists(name) ==
    \E f \in {DATA_FILE, SETTINGS_FILE} : remote[getPath(name, f)].kind # "absent"

----------------------------------------------------------------------------
(* Initial state: the module has been loaded and App has rendered once.    *)

\* Default holds a ledger and settings.  Either the registry has not been
\* written yet and no profile folder exists, or it lists Work, which holds a
\* ledger of its own.
RemoteInit ==
    {[p \in Paths |->
        IF p = getPath("Default", DATA_FILE) THEN TxDoc(<<Tx(1, 1)>>)
        ELSE IF p = getPath("Default", SETTINGS_FILE) THEN SettingsDoc(CustomSettings)
        ELSE IF p = REGISTRY_PATH THEN r
        ELSE IF p = getPath("Work", DATA_FILE) /\ r # Absent THEN TxDoc(<<Tx(1, 2)>>)
        ELSE Absent] :
        r \in {Absent, RegistryDoc(<<"Default", "Work">>)}}

\* No component is under study: nothing resolved, no dialog, form or dashboard.
ViewIdle ==
    /\ resolved = "none"
    /\ localSettings = "none"
    /\ form = "none"
    /\ stats = "none"

Init ==
    /\ token \in BOOLEAN
    /\ dbx = token
    /\ svcProfile = "Default"
    /\ remote \in RemoteInit
    /\ isAuthenticated = FALSE
    /\ transactions = <<>>
    /\ settings = DEFAULT_SETTINGS
    /\ profiles = <<"Default">>
    /\ currentProfile = "Default"
    /\ editingTransaction = NoTx
    /\ hasCheckedAuth = FALSE
    /\ inflight = EmptyBag
    /\ nextId = 2
    /\ clicks = MaxClicks
    /\ alertMsg = "none"
    /\ event = Event("none", "none", <<>>)
    /\ check = NoCheck
    /\ listing = NoListing
    /\ halted = {}
    /\ journal = [base |-> <<>>, calls |-> <<>>, from |-> {}]
    /\ ViewIdle

----------------------------------------------------------------------------
(* DropboxService: what each file operation returns for the answer it gets. *)

\* A checkFileExists that takes every failure for absence.
checkFileExists_unknownAsAbsent(hasClient, reply) ==
    IF hasClient /\ reply = "found" THEN "true" ELSE "false"

\* checkFileExists: "true", "false", or "throw" (the error is rethrown).
\* hasClient is this.dbx being set when the call is made.
checkFileExists(hasClient, reply) ==
    IF ~hasClient THEN "false"
    ELSE IF reply = "found" THEN "true"
    ELSE IF reply = "path_not_found" THEN "false"
    ELSE "throw"

\* What checkFileExists based its answer on.
CheckCause(hasClient, reply) == IF hasClient THEN reply ELSE "noclient"

\* downloadFile, once the call is answered: "data" (the parsed document),
\* "null" (path_not_found), or "throw".
downloadFile(reply) ==
    IF reply = "found" THEN "data"
    ELSE IF reply = "path_not_found" THEN "null"
    ELSE "throw"

\* getProfiles: the list it returns, and threw when an error reaches the
\* caller.  Without a client it returns [Default] at once; otherwise reply is
\* the answer to its download of /profiles.json and doc the registry read.
getProfiles(hasClient, reply, doc) ==
    IF hasClient /\ downloadFile(reply) = "data"
    THEN [threw |-> FALSE, list |-> doc.names]
    ELSE [threw |-> FALSE, list |-> <<"Default">>]

----------------------------------------------------------------------------
(* The effects of one segment of a handler: the call it leaves pending (or   *)
(* Idle), the App state it sets, the alert it shows, and whether the session *)
(* was cleared in the segment.                                               *)

Eff0 ==
    [task |-> Idle, tx |-> transactions, st |-> settings, alert |-> "none",
     chk |-> NoCheck, clear |-> FALSE, halt |-> "none", call |-> NoCall]

\* handleLogout, as far as its first await: the user confirms or not; logout()
\* awaits the token revocation when there is a client, and clears at once
\* when there is none.
handleLogout(e, confirmed) ==
    IF ~confirmed THEN e
    ELSE IF dbx THEN [e EXCEPT !.task = Task("revoke", <<>>, Absent, "Default")]
    ELSE [e EXCEPT !.clear = TRUE, !.tx = <<>>]

\* loadDataAndSettings: the catch around the existence check of the data file.
loadCheckCatch(e, reply, confirmed) ==
    IF ErrStatus(reply) \in {401, 400}
    THEN handleLogout([e EXCEPT !.alert = "authExpired", !.halt = "failed"], confirmed)
    ELSE [e EXCEPT !.alert = "checkFailed", !.halt = "failed"]

\* An outer catch that logs out on every error.
loadOuterCatch_logoutOnAnyError(e, reply, confirmed) ==
    handleLogout([e EXCEPT !.alert = "authExpired", !.halt = "failed"], confirmed)

\* loadDataAndSettings: the outer catch.
loadOuterCatch(e, reply, confirmed) ==
    IF ErrStatus(reply) \in {401, 400} \/ ErrTag(reply) = "invalid_access_token"
    THEN handleLogout([e EXCEPT !.alert = "authExpired", !.halt = "failed"], confirmed)
    ELSE [e EXCEPT !.alert = "loadError", !.halt = "failed"]

\* The settings half, from its existence check.  The data half has succeeded.
loadSettingsStart(e, owner) ==
    IF ~dbx
    THEN [e EXCEPT !.chk = Check(SETTINGS_FILE, CheckCause(FALSE, "none"),
                                 checkFileExists(FALSE, "none")),
                   !.st = DEFAULT_SETTINGS, !.halt = "ok"]
    ELSE [e EXCEPT !.task = Task("checkSettings", getPath(svcProfile, SETTINGS_FILE),
                                 Absent, owner),
                   !.halt = "ok"]

\* loadDataAndSettings, as far as its first await.
\* active is the service's currentProfile when it is called.
loadStart(e, active, confirmed) ==
    IF ~dbx
    THEN loadOuterCatch([e EXCEPT !.chk = Check(DATA_FILE, CheckCause(FALSE, "none"),
                                                checkFileExists(FALSE, "none"))],
                        "noclient", confirmed)
    ELSE [e EXCEPT !.task = Task("checkTx", getPath(active, DATA_FILE), Absent, active)]

\* After the existence check of the data file is answered.
loadAfterCheckTx(e, owner, reply, confirmed) ==
    LET r == checkFileExists(TRUE, reply)
        e1 == [e EXCEPT !.chk = Check(DATA_FILE, CheckCause(TRUE, reply), r)]
    IN  IF r = "throw" THEN loadCheckCatch(e1, reply, confirmed)
        ELSE IF ~dbx THEN loadOuterCatch(e1, "noclient", confirmed)
        ELSE IF r = "true"
        THEN [e1 EXCEPT !.task = Task("downloadTx", getPath(svcProfile, DATA_FILE),
                                      Absent, owner)]
        ELSE [e1 EXCEPT !.task = Task("uploadEmpty", getPath(svcProfile, DATA_FILE),
                                      TxDoc(<<>>), owner)]

\* A load that fetches and creates the file when the fetch brings nothing.
loadAfterDownloadTx_createIfMissing(e, owner, reply, doc, confirmed) ==
    IF downloadFile(reply) = "data"
    THEN loadSettingsStart([e EXCEPT !.tx = doc.txs], owner)
    ELSE [e EXCEPT !.task = Task("uploadEmpty", getPath(svcProfile, DATA_FILE),
                                 TxDoc(<<>>), owner)]

\* After the download of the data file is answered.
loadAfterDownloadTx(e, owner, reply, doc, confirmed) ==
    IF downloadFile(reply) = "throw" THEN loadOuterCatch(e, reply, confirmed)
    ELSE IF downloadFile(reply) = "data"
    THEN loadSettingsStart([e EXCEPT !.tx = doc.txs], owner)
    ELSE loadSettingsStart(e, owner)

\* After the upload of the empty collection is answered.
loadAfterUploadEmpty(e, owner, reply, confirmed) ==
    IF reply # "ok" THEN loadOuterCatch(e, reply, confirmed)
    ELSE loadSettingsStart([e EXCEPT !.tx = <<>>], owner)

\* A settings load that creates the settings file with the defaults when it
\* finds none, as the data half does.
loadAfterCheckSettings_createDefaults(e, owner, reply) ==
    LET r == checkFileExists(TRUE, reply)
        e1 == [e EXCEPT !.chk = Check(SETTINGS_FILE, CheckCause(TRUE, reply), r)]
    IN  IF r = "true" /\ dbx
        THEN [e1 EXCEPT !.task = Task("loadSettings", getPath(svcProfile, SETTINGS_FILE),
                                      Absent, owner)]
        ELSE IF r = "false" /\ dbx
        THEN [e1 EXCEPT !.st = DEFAULT_SETTINGS,
                        !.task = Task("uploadSettings", getPath(svcProfile, SETTINGS_FILE),
                                      SettingsDoc(DEFAULT_SETTINGS), owner)]
        ELSE [e1 EXCEPT !.st = DEFAULT_SETTINGS]

\* After the existence check of the settings file is answered.
loadAfterCheckSettings(e, owner, reply) ==
    LET r == checkFileExists(TRUE, reply)
        e1 == [e EXCEPT !.chk = Check(SETTINGS_FILE, CheckCause(TRUE, reply), r)]
    IN  IF r = "true" /\ dbx
        THEN [e1 EXCEPT !.task = Task("loadSettings", getPath(svcProfile, SETTINGS_FILE),
                                      Absent, owner)]
        ELSE [e1 EXCEPT !.st = DEFAULT_SETTINGS]

\* After the download of the settings file is answered.
loadAfterLoadSettings(e, reply, doc) ==
    IF downloadFile(reply) = "data" THEN [e EXCEPT !.st = doc.st]
    ELSE IF downloadFile(reply) = "null" THEN e
    ELSE [e EXCEPT !.st = DEFAULT_SETTINGS]

\* The awaits of loadDataAndSettings.
LoadOps == {"checkTx", "downloadTx", "uploadEmpty", "checkSettings", "loadSettings"}

\* handleDeleteProfile awaits the load that handleSwitchProfile('Default')
\* starts and then tells the user that the profile is deleted: the calls of
\* that load carry arg "afterDelete".  alertMsg keeps the alert of the load
\* when the load showed one.
AfterDelete(t) == t.arg = "afterDelete" /\ t.pc \in LoadOps \cup {"deleteWrite"}

\* The segment's effects applied to the state; t is the call whose answer the
\* segment handled (Idle for a segment started by the user).
Apply(t, e, owner) ==
    /\ inflight' = Pending(t, IF AfterDelete(t) /\ e.task.pc \in LoadOps
                              THEN [e.task EXCEPT !.arg = "afterDelete"]
                              ELSE e.task)
    /\ transactions' = e.tx
    /\ settings' = e.st
    /\ alertMsg' = IF AfterDelete(t) /\ e.task.pc \notin LoadOps /\ e.alert = "none"
                   THEN "profileDeleted"
                   ELSE e.alert
    /\ check' = e.chk
    /\ dbx' = (dbx /\ ~e.clear)
    /\ token' = (token /\ ~e.clear)
    /\ isAuthenticated' = (isAuthenticated /\ ~e.clear)
    /\ halted' = IF e.halt = "failed" THEN halted \cup {owner}
                 ELSE IF e.halt = "ok" THEN halted \ {owner}
                 ELSE halted
    /\ journal' = IF e.call # NoCall
                  THEN [journal EXCEPT !.calls = Append(@, e.call),
                                       !.from = @ \cup {svcProfile}]
                  ELSE IF e.tx # transactions
                  THEN [base |-> e.tx, calls |-> <<>>,
                        from |-> IF e.tx = <<>> THEN {} ELSE {ProfileOf(t.path)}]
                  ELSE journal

----------------------------------------------------------------------------
(* App: start-up and loadDataAndSettings *)

\* initAuth: a redirect with a code that handleRedirect exchanges for a token,
\* or a saved token, authenticates; loadProfiles then awaits getProfiles.
InitAuth ==
    /\ ~hasCheckedAuth
    /\ \E redirectOk \in BOOLEAN :
        /\ hasCheckedAuth' = TRUE
        /\ dbx' = (dbx \/ redirectOk)
        /\ token' = (token \/ redirectOk)
        /\ isAuthenticated' = (token \/ redirectOk)
        /\ inflight' = IF token \/ redirectOk
                       THEN Pending(Idle, Task("getProfiles", REGISTRY_PATH, Absent,
                                               svcProfile))
                       ELSE inflight
        /\ event' = Event("initAuth", "none", <<>>)
    /\ alertMsg' = "none" /\ check' = NoCheck /\ listing' = NoListing
    /\ UNCHANGED <<svcProfile, remote, transactions, settings, profiles, currentProfile,
                   editingTransaction, nextId, clicks, halted, journal>>

\* loadProfiles after getProfiles is answered, then initAuth goes on to
\* loadDataAndSettings.
GetProfilesDone(t) ==
    /\ t.pc = "getProfiles"
    /\ \E f \in Failures, confirmed \in BOOLEAN :
        LET reply == ReadReply(f, t.path)
            r == getProfiles(TRUE, reply, remote[t.path])
        IN  /\ event' = Event("getProfiles", reply, t.path)
            /\ listing' = Listing(reply, r)
            /\ IF r.threw
               THEN /\ Apply(t, Eff0, svcProfile)
                    /\ UNCHANGED <<profiles, currentProfile>>
               ELSE /\ profiles' = r.list
                    /\ currentProfile' = svcProfile
                    /\ Apply(t, loadStart(Eff0, svcProfile, confirmed), svcProfile)
    /\ UNCHANGED <<svcProfile, remote, editingTransaction, hasCheckedAuth, nextId, clicks>>

CheckTxDone(t) ==
    /\ t.pc = "checkTx"
    /\ \E f \in Failures, confirmed \in BOOLEAN :
        LET reply == ReadReply(f, t.path)
        IN  /\ event' = Event("checkTx", reply, t.path)
            /\ Apply(t, loadAfterCheckTx(Eff0, t.owner, reply, confirmed),
                     t.owner)
    /\ listing' = NoListing
    /\ UNCHANGED <<svcProfile, remote, profiles, currentProfile, editingTransaction,
                   hasCheckedAuth, nextId, clicks>>

DownloadTxDone(t) ==
    /\ t.pc = "downloadTx"
    /\ \E f \in Failures, confirmed \in BOOLEAN :
        LET reply == ReadReply(f, t.path)
        IN  /\ event' = Event("downloadTx", reply, t.path)
            /\ Apply(t, loadAfterDownloadTx(Eff0, t.owner, reply,
                                            remote[t.path], confirmed),
                     t.owner)
    /\ listing' = NoListing
    /\ UNCHANGED <<svcProfile, remote, profiles, currentProfile, editingTransaction,
                   hasCheckedAuth, nextId, clicks>>

\* filesUpload with mode overwrite: the store holds the uploaded document.
Upload(f, path, doc) == IF f = "ok" THEN [remote EXCEPT ![path] = doc] ELSE remote

UploadEmptyDone(t) ==
    /\ t.pc = "uploadEmpty"
    /\ \E f \in Failures, confirmed \in BOOLEAN :
        /\ event' = Event("uploadEmpty", f, t.path)
        /\ remote' = Upload(f, t.path, t.doc)
        /\ Apply(t, loadAfterUploadEmpty(Eff0, t.owner, f, confirmed),
                 t.owner)
    /\ listing' = NoListing
    /\ UNCHANGED <<svcProfile, profiles, currentProfile, editingTransaction,
                   hasCheckedAuth, nextId, clicks>>

CheckSettingsDone(t) ==
    /\ t.pc = "checkSettings"
    /\ \E f \in Failures :
        LET reply == ReadReply(f, t.path)
        IN  /\ event' = Event("checkSettings", reply, t.path)
            /\ Apply(t, loadAfterCheckSettings(Eff0, t.owner, reply),
                     t.owner)
    /\ listing' = NoListing
    /\ UNCHANGED <<svcProfile, remote, profiles, currentProfile, editingTransaction,
                   hasCheckedAuth, nextId, clicks>>

LoadSettingsDone(t) ==
    /\ t.pc = "loadSettings"
    /\ \E f \in Failures :
        LET reply == ReadReply(f, t.path)
        IN  /\ event' = Event("loadSettings", reply, t.path)
            /\ Apply(t, loadAfterLoadSettings(Eff0, reply, remote[t.path]),
                     t.owner)
    /\ listing' = NoListing
    /\ UNCHANGED <<svcProfile, remote, profiles, currentProfile, editingTransaction,
                   hasCheckedAuth, nextId, clicks>>

\* handleSwitchProfile, as far as the first await of loadDataAndSettings.
handleSwitchProfile(name) ==
    /\ isAuthenticated
    /\ \E confirmed \in BOOLEAN :
        Apply(Idle,
              loadStart([Eff0 EXCEPT !.tx = <<>>, !.st = DEFAULT_SETTINGS], name, confirmed),
              name)
    /\ svcProfile' = name
    /\ currentProfile' = name
    /\ event' = Event("switchProfile", "none", <<>>)
    /\ listing' = NoListing
    /\ UNCHANGED <<remote, profiles, editingTransaction, hasCheckedAuth, nextId>>
    /\ Click

SwitchProfile == \E i \in 1..Len(profiles) : handleSwitchProfile(profiles[i])

----------------------------------------------------------------------------
(* App: mutations *)

\* A handleAddTransaction that takes every single transaction for an update.
handleAddTransactionUpdated_byLength(newTransactions) ==
    IF Len(newTransactions) = 1
    THEN [i \in 1..Len(transactions) |->
            IF transactions[i].id = newTransactions[1].id THEN newTransactions[1]
            ELSE transactions[i]]
    ELSE transactions \o newTransactions

\* The collection handleAddTransaction computes: update mode replaces by id,
\* create mode (one transaction, or the two of a split) appends.
handleAddTransactionUpdated(newTransactions) ==
    IF editingTransaction # NoTx /\ Len(newTransactions) = 1
    THEN [i \in 1..Len(transactions) |->
            IF transactions[i].id = newTransactions[1].id THEN newTransactions[1]
            ELSE transactions[i]]
    ELSE transactions \o newTransactions

\* The collection handleDeleteTransaction computes.
handleDeleteTransactionUpdated(id) ==
    SelectSeq(transactions, LAMBDA t : t.id # id)

\* uploadFile called by a mutation handler; pc names the catch awaiting it.
\* Without a client it throws at once and the handler's catch alerts.
mutationUpload(e, pc, filename, doc) ==
    IF ~dbx THEN [e EXCEPT !.alert = "syncFailed"]
    ELSE [e EXCEPT !.task = Task(pc, getPath(svcProfile, filename), doc, svcProfile)]

\* handleAddTransaction, as far as the await of uploadFile.
handleAddTransaction(newTransactions, op) ==
    /\ isAuthenticated
    /\ LET updated == handleAddTransactionUpdated(newTransactions)
           isUpdate == editingTransaction # NoTx /\ Len(newTransactions) = 1
       IN  /\ Apply(Idle,
                    mutationUpload([Eff0 EXCEPT !.tx = updated,
                                                !.call = Call(op, newTransactions),
                                                !.alert = IF isUpdate THEN "editDone"
                                                          ELSE "none"],
                                   "uploadTransactions", DATA_FILE, TxDoc(updated)),
                    svcProfile)
           /\ editingTransaction' = IF isUpdate THEN NoTx ELSE editingTransaction
    /\ event' = Event(op, "none", <<>>)
    /\ listing' = NoListing
    /\ UNCHANGED <<svcProfile, remote, profiles, currentProfile, hasCheckedAuth>>
    /\ Click

\* TransactionForm.handleSubmit without editingTransaction: one new transaction,
\* or the two of a split, each with a fresh uuid.
SubmitNew ==
    /\ editingTransaction = NoTx
    /\ \E n \in 1..2, a \in Amounts :
        /\ nextId' = nextId + n
        /\ handleAddTransaction([i \in 1..n |-> Tx(nextId + i - 1, a)], "add")

\* TransactionForm.handleSubmit with editingTransaction: the original id is kept.
SubmitEdit ==
    /\ editingTransaction # NoTx
    /\ \E a \in Amounts :
        /\ handleAddTransaction(<<Tx(editingTransaction.id, a)>>, "update")
        /\ nextId' = nextId

\* handleEditTransaction: a row of the list is picked for editing.
handleEditTransaction ==
    /\ isAuthenticated
    /\ \E i \in 1..Len(transactions) :
        /\ editingTransaction # transactions[i]
        /\ editingTransaction' = transactions[i]
    /\ event' = Event("edit", "none", <<>>)
    /\ alertMsg' = "none" /\ check' = NoCheck /\ listing' = NoListing
    /\ UNCHANGED <<dbx, token, svcProfile, remote, isAuthenticated, transactions, settings,
                   profiles, currentProfile, hasCheckedAuth, inflight, nextId, halted, journal>>
    /\ Click

\* onCancelEdit: the form leaves edit mode.
CancelEdit ==
    /\ isAuthenticated
    /\ editingTransaction # NoTx
    /\ editingTransaction' = NoTx
    /\ event' = Event("cancelEdit", "none", <<>>)
    /\ alertMsg' = "none" /\ check' = NoCheck /\ listing' = NoListing
    /\ UNCHANGED <<dbx, token, svcProfile, remote, isAuthenticated, transactions, settings,
                   profiles, currentProfile, hasCheckedAuth, inflight, nextId, halted, journal>>
    /\ Click

\* handleDeleteTransaction of a row of the list, confirmed by the user.
handleDeleteTransaction ==
    /\ isAuthenticated
    /\ \E i \in 1..Len(transactions) :
        LET updated == handleDeleteTransactionUpdated(transactions[i].id)
        IN  Apply(Idle,
                  mutationUpload([Eff0 EXCEPT !.tx = updated,
                                              !.call = Call("remove", <<transactions[i]>>)],
                                 "uploadAfterDelete", DATA_FILE, TxDoc(updated)),
                  svcProfile)
    /\ event' = Event("delete", "none", <<>>)
    /\ listing' = NoListing
    /\ UNCHANGED <<svcProfile, remote, profiles, currentProfile, editingTransaction,
                   hasCheckedAuth, nextId>>
    /\ Click

\* handleSaveSettings with the settings the dialog hands over.
handleSaveSettings ==
    /\ isAuthenticated
    /\ \E newSettings \in SettingsInputs :
        Apply(Idle,
              mutationUpload([Eff0 EXCEPT !.st = newSettings], "uploadSettings",
                             SETTINGS_FILE, SettingsDoc(newSettings)),
              svcProfile)
    /\ event' = Event("saveSettings", "none", <<>>)
    /\ listing' = NoListing
    /\ UNCHANGED <<svcProfile, remote, profiles, currentProfile, editingTransaction,
                   hasCheckedAuth, nextId>>
    /\ Click

\* A handler that swallows the failure of its upload.
mutationAfterUpload_silent(e, reply) == e

\* The catch of a mutation handler once its upload is answered.
mutationAfterUpload(e, reply) ==
    IF reply = "ok" THEN e ELSE [e EXCEPT !.alert = "syncFailed"]

MutationPcs == {"uploadTransactions", "uploadAfterDelete", "uploadSettings"}

UploadDone(t) ==
    /\ t.pc \in MutationPcs
    /\ \E f \in Failures :
        /\ event' = Event(t.pc, f, t.path)
        /\ remote' = Upload(f, t.path, t.doc)
        /\ Apply(t, mutationAfterUpload(Eff0, f), t.owner)
    /\ listing' = NoListing
    /\ UNCHANGED <<svcProfile, profiles, currentProfile, editingTransaction,
                   hasCheckedAuth, nextId, clicks>>

----------------------------------------------------------------------------
(* App and DropboxService: logout *)

\* The logout button: handleLogout, confirmed by the user.
Logout ==
    /\ isAuthenticated
    /\ Apply(Idle, handleLogout(Eff0, TRUE), svcProfile)
    /\ event' = Event("logout", "none", <<>>)
    /\ listing' = NoListing
    /\ UNCHANGED <<svcProfile, remote, profiles, currentProfile, editingTransaction,
                   hasCheckedAuth, nextId>>
    /\ Click

\* logout after authTokenRevoke is answered (a failed revocation is only
\* logged), then the rest of handleLogout.
RevokeDone(t) ==
    /\ t.pc = "revoke"
    /\ \E f \in Failures :
        /\ event' = Event("revoke", f, <<>>)
        /\ Apply(t, [Eff0 EXCEPT !.clear = TRUE, !.tx = <<>>], t.owner)
    /\ listing' = NoListing
    /\ UNCHANGED <<svcProfile, remote, profiles, currentProfile, editingTransaction,
                   hasCheckedAuth, nextId, clicks>>

\* A page whose service keeps the profile it had across the login.
InitialProfile_kept == svcProfile

\* DropboxService.currentProfile as the module sets it when it is evaluated.
InitialProfile == "Default"

\* handleLogin: the browser leaves for the Dropbox authorisation page and
\* comes back to a page loaded anew, whose module state is as constructed
\* (the constructor reads the saved token); getAuthUrl failing only alerts.
\* The calls of the page that is left have all been answered.
handleLogin ==
    /\ ~isAuthenticated /\ hasCheckedAuth
    /\ inflight = EmptyBag
    /\ \E ok \in BOOLEAN :
        /\ alertMsg' = IF ok THEN "none" ELSE "loginFailed"
        /\ hasCheckedAuth' = ~ok
        /\ dbx' = IF ok THEN token ELSE dbx
        /\ svcProfile' = IF ok THEN InitialProfile ELSE svcProfile
        /\ transactions' = IF ok THEN <<>> ELSE transactions
        /\ settings' = IF ok THEN DEFAULT_SETTINGS ELSE settings
        /\ profiles' = IF ok THEN <<"Default">> ELSE profiles
        /\ currentProfile' = IF ok THEN "Default" ELSE currentProfile
        /\ editingTransaction' = IF ok THEN NoTx ELSE editingTransaction
        /\ halted' = IF ok THEN {} ELSE halted
        /\ journal' = IF ok THEN [base |-> <<>>, calls |-> <<>>, from |-> {}] ELSE journal
    /\ event' = Event("login", "none", <<>>)
    /\ check' = NoCheck /\ listing' = NoListing
    /\ UNCHANGED <<token, remote, isAuthenticated, inflight, nextId, clicks>>

----------------------------------------------------------------------------
(* App and DropboxService: the profile directory *)

\* A test of the reserved name that lets every name through.
IsReserved_never(name) == FALSE

\* The reserved name, which handleRenameProfile, handleDeleteProfile,
\* renameProfile and deleteProfile each test for.
IsReserved(name) == name = "Default"

\* Fields of the state that no step of a profile operation touches.
ProfileFrame == UNCHANGED <<editingTransaction, hasCheckedAuth, nextId>>

\* handleSwitchProfile called by a handler that has just been answered call t.
switchProfileAfter(t, name) ==
    /\ \E confirmed \in BOOLEAN :
        Apply(t,
              loadStart([Eff0 EXCEPT !.tx = <<>>, !.st = DEFAULT_SETTINGS], name, confirmed),
              name)
    /\ svcProfile' = name
    /\ currentProfile' = name

\* A step of a profile operation that sets none of the App's profile state.
profileStep(t, e) ==
    /\ Apply(t, e, svcProfile)
    /\ UNCHANGED <<svcProfile, profiles, currentProfile>>

\* handleCreateProfile once addProfile has returned.
createProfileDone(t, name) ==
    /\ profiles' = Append(profiles, name)
    /\ switchProfileAfter(t, name)

\* An addProfile that seeds the ledger of the new profile instead of
\* registering it.
addProfile_seedsLedger(t, name, list) ==
    profileStep(t, [Eff0 EXCEPT !.task =
        Task("uploadEmpty", getPath(name, DATA_FILE), TxDoc(<<>>), name)])

\* addProfile once getProfiles has returned list: it writes the registry when
\* the name is not listed, and uploadFile throws when there is no client (the
\* handler has no catch: it stops there).
addProfile(t, name, list) ==
    IF Includes(list, name) THEN createProfileDone(t, name)
    ELSE IF ~dbx THEN profileStep(t, Eff0)
    ELSE profileStep(t, [Eff0 EXCEPT !.task =
            ProfileTask("addProfileWrite", REGISTRY_PATH,
                        RegistryDoc(Append(list, name)), name, "none")])

\* handleCreateProfile with the name the user typed, as far as the first await.
handleCreateProfile ==
    /\ isAuthenticated
    /\ \E name \in ProfileNames :
        /\ event' = Event("createProfile", name, <<>>)
        /\ IF Includes(profiles, name)
           THEN /\ profileStep(Idle, [Eff0 EXCEPT !.alert = "profileExists"])
                /\ listing' = NoListing
                /\ UNCHANGED remote
           ELSE IF ~dbx
           THEN /\ listing' = Listing("noclient", getProfiles(FALSE, "none", Absent))
                /\ addProfile(Idle, name, getProfiles(FALSE, "none", Absent).list)
                /\ UNCHANGED remote
           ELSE /\ profileStep(Idle, [Eff0 EXCEPT !.task =
                        ProfileTask("addProfileList", REGISTRY_PATH, Absent, name, "none")])
                /\ listing' = NoListing
                /\ UNCHANGED remote
    /\ ProfileFrame
    /\ Click

\* addProfile after the registry read of getProfiles is answered.
AddProfileListDone(t) ==
    /\ t.pc = "addProfileList"
    /\ \E f \in Failures :
        LET reply == ReadReply(f, t.path)
            r == getProfiles(TRUE, reply, remote[t.path])
        IN  /\ event' = Event("addProfileList", reply, t.path)
            /\ listing' = Listing(reply, r)
            /\ addProfile(t, t.owner, r.list)
    /\ UNCHANGED <<remote, clicks>>
    /\ ProfileFrame

\* addProfile after its registry write is answered; a failed write is an
\* error nobody catches.
AddProfileWriteDone(t) ==
    /\ t.pc = "addProfileWrite"
    /\ \E f \in Failures :
        /\ event' = Event("addProfileWrite", f, t.path)
        /\ remote' = Upload(f, t.path, t.doc)
        /\ IF f = "ok" THEN createProfileDone(t, t.owner) ELSE profileStep(t, Eff0)
    /\ listing' = NoListing
    /\ UNCHANGED clicks
    /\ ProfileFrame


\* filesMoveV2 of a profile folder: how the call ends, and the store after it.
filesMoveV2(f, oldName, newName) ==
    IF f # "ok" THEN f
    ELSE IF ~FolderExists(oldName) THEN "not_found"
    ELSE IF FolderExists(newName) THEN "conflict"
    ELSE "ok"
Moved(oldName, newName) ==
    [p \in Paths |->
        IF \E file \in {DATA_FILE, SETTINGS_FILE} : p = getPath(newName, file)
        THEN remote[getPath(oldName, p[3])]
        ELSE IF \E file \in {DATA_FILE, SETTINGS_FILE} : p = getPath(oldName, file)
        THEN Absent
        ELSE remote[p]]

\* filesDeleteV2 of a profile folder.
filesDeleteV2(f, name) ==
    IF f # "ok" THEN f ELSE IF ~FolderExists(name) THEN "not_found" ELSE "ok"
Removed(name) ==
    [p \in Paths |->
        IF \E file \in {DATA_FILE, SETTINGS_FILE} : p = getPath(name, file)
        THEN Absent
        ELSE remote[p]]

\* renameProfile returns: the service follows the rename when the renamed
\* profile is its current one, and handleRenameProfile sets the App state.
renameProfileDone(t, oldName, newName) ==
    /\ Apply(t, [Eff0 EXCEPT !.alert = "renameDone"], svcProfile)
    /\ svcProfile' = IF svcProfile = oldName THEN newName ELSE svcProfile
    /\ profiles' = Renamed(profiles, oldName, newName)
    /\ currentProfile' = newName

\* renameProfile throws and the catch of handleRenameProfile alerts.
renameProfileFailed(t) == profileStep(t, [Eff0 EXCEPT !.alert = "renameFailed"])

\* handleRenameProfile with the name the user typed, as far as the first await.
handleRenameProfile ==
    /\ isAuthenticated
    /\ \E newName \in ProfileNames \ {currentProfile} :
        /\ event' = Event("renameProfile", newName, FolderPath(currentProfile))
        /\ IF IsReserved(currentProfile)
           THEN profileStep(Idle, Eff0)
           ELSE IF Includes(profiles, newName)
           THEN profileStep(Idle, [Eff0 EXCEPT !.alert = "nameExists"])
           ELSE IF ~dbx \/ IsReserved(currentProfile)
           THEN renameProfileFailed(Idle)
           ELSE profileStep(Idle, [Eff0 EXCEPT !.task =
                    ProfileTask("renameList", REGISTRY_PATH, Absent,
                                currentProfile, newName)])
    /\ listing' = NoListing
    /\ UNCHANGED remote
    /\ ProfileFrame
    /\ Click

\* renameProfile after the registry read of getProfiles is answered.
RenameListDone(t) ==
    /\ t.pc = "renameList"
    /\ \E f \in Failures :
        LET reply == ReadReply(f, t.path)
            r == getProfiles(TRUE, reply, remote[t.path])
        IN  /\ event' = Event("renameList", reply, t.path)
            /\ listing' = Listing(reply, r)
            /\ IF Includes(r.list, t.arg) \/ ~dbx
               THEN renameProfileFailed(t)
               ELSE profileStep(t, [Eff0 EXCEPT !.task =
                        ProfileTask("renameWrite", REGISTRY_PATH,
                                    RegistryDoc(Renamed(r.list, t.owner, t.arg)),
                                    t.owner, t.arg)])
    /\ UNCHANGED <<remote, clicks>>
    /\ ProfileFrame

\* renameProfile after its registry write is answered: the folder move comes
\* next; with the client gone the move throws inside its try and is skipped.
RenameWriteDone(t) ==
    /\ t.pc = "renameWrite"
    /\ \E f \in Failures :
        /\ event' = Event("renameWrite", f, t.path)
        /\ remote' = Upload(f, t.path, t.doc)
        /\ IF f # "ok" THEN renameProfileFailed(t)
           ELSE IF ~dbx THEN renameProfileDone(t, t.owner, t.arg)
           ELSE profileStep(t, [Eff0 EXCEPT !.task =
                    ProfileTask("renameMove", FolderPath(t.owner), Absent,
                                t.owner, t.arg)])
    /\ listing' = NoListing
    /\ UNCHANGED clicks
    /\ ProfileFrame

\* renameProfile after the folder move is answered: whatever the answer, the
\* catch only logs it and renameProfile returns.
RenameMoveDone(t) ==
    /\ t.pc = "renameMove"
    /\ \E f \in Failures :
        LET reply == filesMoveV2(f, t.owner, t.arg)
        IN  /\ event' = Event("renameMove", reply, t.path)
            /\ remote' = IF reply = "ok" THEN Moved(t.owner, t.arg) ELSE remote
            /\ renameProfileDone(t, t.owner, t.arg)
    /\ listing' = NoListing
    /\ UNCHANGED clicks
    /\ ProfileFrame

\* deleteProfile throws and the catch of handleDeleteProfile alerts.
deleteProfileFailed(t) == profileStep(t, [Eff0 EXCEPT !.alert = "deleteFailed"])

\* handleDeleteProfile, confirmed twice by the user, as far as the first await.
handleDeleteProfile ==
    /\ isAuthenticated
    /\ event' = Event("deleteProfile", currentProfile, FolderPath(currentProfile))
    /\ IF IsReserved(currentProfile)
       THEN profileStep(Idle, Eff0)
       ELSE IF ~dbx \/ IsReserved(currentProfile)
       THEN deleteProfileFailed(Idle)
       ELSE profileStep(Idle, [Eff0 EXCEPT !.task =
                ProfileTask("deleteFolder", FolderPath(currentProfile), Absent,
                            currentProfile, "afterDelete")])
    /\ listing' = NoListing
    /\ UNCHANGED remote
    /\ ProfileFrame
    /\ Click

\* deleteProfile after the folder removal is answered: a failure is only
\* logged, and the registry is read next.
DeleteFolderDone(t) ==
    /\ t.pc = "deleteFolder"
    /\ \E f \in Failures :
        LET reply == filesDeleteV2(f, t.owner)
        IN  /\ event' = Event("deleteFolder", reply, t.path)
            /\ remote' = IF reply = "ok" THEN Removed(t.owner) ELSE remote
            /\ IF ~dbx
               THEN /\ listing' = Listing("noclient", getProfiles(FALSE, "none", Absent))
                    /\ deleteProfileFailed(t)
               ELSE /\ listing' = NoListing
                    /\ profileStep(t, [Eff0 EXCEPT !.task =
                            ProfileTask("deleteList", REGISTRY_PATH, Absent,
                                        t.owner, "afterDelete")])
    /\ UNCHANGED clicks
    /\ ProfileFrame

\* deleteProfile after the registry read of getProfiles is answered.
DeleteListDone(t) ==
    /\ t.pc = "deleteList"
    /\ \E f \in Failures :
        LET reply == ReadReply(f, t.path)
            r == getProfiles(TRUE, reply, remote[t.path])
        IN  /\ event' = Event("deleteList", reply, t.path)
            /\ listing' = Listing(reply, r)
            /\ IF ~dbx THEN deleteProfileFailed(t)
               ELSE profileStep(t, [Eff0 EXCEPT !.task =
                        ProfileTask("deleteWrite", REGISTRY_PATH,
                                    RegistryDoc(Without(r.list, t.owner)),
                                    t.owner, "afterDelete")])
    /\ UNCHANGED <<remote, clicks>>
    /\ ProfileFrame

\* deleteProfile after its registry write is answered; handleDeleteProfile
\* then drops the profile from its list and switches to Default.
DeleteWriteDone(t) ==
    /\ t.pc = "deleteWrite"
    /\ \E f \in Failures :
        /\ event' = Event("deleteWrite", f, t.path)
        /\ remote' = Upload(f, t.path, t.doc)
        /\ IF f # "ok" THEN deleteProfileFailed(t)
           ELSE /\ profiles' = Without(profiles, t.owner)
                /\ switchProfileAfter(t, "Default")
    /\ listing' = NoListing
    /\ UNCHANGED clicks
    /\ ProfileFrame

----------------------------------------------------------------------------

Next ==
    \/ InitAuth /\ UNCHANGED viewVars
    \/ \E t \in BagToSet(inflight) : GetProfilesDone(t) /\ UNCHANGED viewVars
    \/ \E t \in BagToSet(inflight) : CheckTxDone(t) /\ UNCHANGED viewVars
    \/ \E t \in BagToSet(inflight) : DownloadTxDone(t) /\ UNCHANGED viewVars
    \/ \E t \in BagToSet(inflight) : UploadEmptyDone(t) /\ UNCHANGED viewVars
    \/ \E t \in BagToSet(inflight) : CheckSettingsDone(t) /\ UNCHANGED viewVars
    \/ \E t \in BagToSet(inflight) : LoadSettingsDone(t) /\ UNCHANGED viewVars
    \/ SwitchProfile /\ UNCHANGED viewVars
    \/ SubmitNew /\ UNCHANGED viewVars
    \/ SubmitEdit /\ UNCHANGED viewVars
    \/ handleEditTransaction /\ UNCHANGED viewVars
    \/ CancelEdit /\ UNCHANGED viewVars
    \/ handleDeleteTransaction /\ UNCHANGED viewVars
    \/ handleSaveSettings /\ UNCHANGED viewVars
    \/ \E t \in BagToSet(inflight) : UploadDone(t) /\ UNCHANGED viewVars
    \/ Logout /\ UNCHANGED viewVars
    \/ \E t \in BagToSet(inflight) : RevokeDone(t) /\ UNCHANGED viewVars
    \/ handleCreateProfile /\ UNCHANGED viewVars
    \/ \E t \in BagToSet(inflight) : AddProfileListDone(t) /\ UNCHANGED viewVars
    \/ \E t \in BagToSet(inflight) : AddProfileWriteDone(t) /\ UNCHANGED viewVars
    \/ handleRenameProfile /\ UNCHANGED viewVars
    \/ \E t \in BagToSet(inflight) : RenameListDone(t) /\ UNCHANGED viewVars
    \/ \E t \in BagToSet(inflight) : RenameWriteDone(t) /\ UNCHANGED viewVars
    \/ \E t \in BagToSet(inflight) : RenameMoveDone(t) /\ UNCHANGED viewVars
    \/ handleDeleteProfile /\ UNCHANGED viewVars
    \/ \E t \in BagToSet(inflight) : DeleteFolderDone(t) /\ UNCHANGED viewVars
    \/ \E t \in BagToSet(inflight) : DeleteListDone(t) /\ UNCHANGED viewVars
    \/ \E t \in BagToSet(inflight) : DeleteWriteDone(t) /\ UNCHANGED viewVars
    \/ handleLogin /\ UNCHANGED viewVars

Spec == Init /\ [][Next]_vars

----------------------------------------------------------------------------
(* Vocabulary of the properties *)

WritePcs == MutationPcs \cup {"uploadEmpty"}
UserMutations == {"add", "update", "delete", "saveSettings"}

\* How many pending calls continue at one of pcs.
CountPc(b, pcs) ==
    LET S == {t \in BagToSet(b) : t.pc \in pcs}
    IN  BagCardinality([t \in S |-> b[t]])

----------------------------------------------------------------------------
(* C1 *)

\* C1: checkFileExists answers true when the resource exists, false only when
\* the store reports path_not_found, and throws in every other case; it never
\* answers false without the store having reported the path as not found.
C1_ExistsHasThreeOutcomes ==
    check.file # "none" =>
        /\ (check.result = "true") <=> (check.cause = "found")
        /\ (check.result = "false") <=> (check.cause = "path_not_found")
        /\ (check.result = "throw") <=> (check.cause \notin {"found", "path_not_found"})

----------------------------------------------------------------------------
(* C2 *)

\* C2: when the existence check of the data file fails with a transport
\* failure, load stops: the step issues no call (so no write), leaves the
\* store, the in-memory collection and the settings as they were, and tells
\* the user that the file state could not be checked.
C2_LoadAbortsOnUndetermined ==
    [][(event'.op = "checkTx" /\ event'.reply = "transport") =>
            /\ remote' = remote
            /\ transactions' = transactions
            /\ settings' = settings
            /\ BagCardinality(inflight') = BagCardinality(inflight) - 1
            /\ alertMsg' = "checkFailed"]_vars

C2_Witness ==
    /\ event.op = "checkTx" /\ event.reply = "transport"
    /\ remote[event.path].kind = "transactions"
    /\ alertMsg = "checkFailed"

----------------------------------------------------------------------------
(* C3 *)

\* C3: load writes the data file in one case only.  The upload of the empty
\* collection is issued only in the step where the existence check of the data
\* file answered path_not_found; answered, it stores the empty collection and
\* sets the in-memory collection to empty.  No other step of load changes the
\* store; when the check answers found, a download and no write is issued, and
\* the downloaded collection becomes the in-memory collection.
C3_LoadCreatesOnlyWhenAbsent ==
    [][/\ CountPc(inflight', {"uploadEmpty"}) > CountPc(inflight, {"uploadEmpty"}) =>
            /\ check'.file = DATA_FILE
            /\ check'.cause = "path_not_found"
       /\ (event'.op = "uploadEmpty" /\ event'.reply = "ok") =>
            /\ remote' = [remote EXCEPT ![event'.path] = TxDoc(<<>>)]
            /\ transactions' = <<>>
       /\ (event'.op \in LoadOps /\ ~(event'.op = "uploadEmpty" /\ event'.reply = "ok")) =>
            remote' = remote
       /\ (event'.op = "checkTx" /\ event'.reply = "found") =>
            CountPc(inflight', WritePcs) = CountPc(inflight, WritePcs)
       /\ (event'.op = "downloadTx" /\ event'.reply = "found") =>
            /\ transactions' = remote[event'.path].txs
            /\ CountPc(inflight', WritePcs) = CountPc(inflight, WritePcs)]_vars

C3_Witness ==
    /\ event.op = "uploadEmpty" /\ event.reply = "ok"
    /\ remote[event.path] = TxDoc(<<>>)
    /\ transactions = <<>>

----------------------------------------------------------------------------
(* C4 *)

\* C4: getProfiles returns the fallback list [Default] only when the registry
\* is confirmed absent; a transport or auth failure of the read reaches the
\* caller as an error and no list is returned.
C4_FallbackOnlyWhenAbsent ==
    listing.cause \in {"transport", "auth"} => listing.threw

----------------------------------------------------------------------------
(* C5 *)

----------------------------------------------------------------------------
(* C6 *)

\* C6: after a load of a profile has failed, and until a load of it succeeds,
\* add, update, remove and saveSettings on that profile are refused: they
\* issue no write to the store.
C6_RefusesAfterFailedLoad ==
    [][(event'.op \in UserMutations /\ svcProfile \in halted) =>
            CountPc(inflight', MutationPcs) = CountPc(inflight, MutationPcs)]_vars

----------------------------------------------------------------------------
(* C7 *)

\* The collection after one call, as the contract words it: add appends the
\* given transactions, update replaces the transaction with the matching id
\* (none matching: no change), remove drops the transaction with the id.
Matching(c, id) == {i \in 1..Len(c) : c[i].id = id}
RECURSIVE Dropped(_, _)
Dropped(c, id) ==
    IF c = <<>> THEN <<>>
    ELSE IF Head(c).id = id THEN Dropped(Tail(c), id)
    ELSE <<Head(c)>> \o Dropped(Tail(c), id)
Replaced(c, tx) ==
    IF Matching(c, tx.id) = {} THEN c
    ELSE [i \in 1..Len(c) |-> IF i \in Matching(c, tx.id) THEN tx ELSE c[i]]
AfterCall(c, call) ==
    IF call.op = "add" THEN c \o call.txs
    ELSE IF call.op = "update" THEN Replaced(c, call.txs[1])
    ELSE Dropped(c, call.txs[1].id)

RECURSIVE Fold(_, _)
Fold(c, calls) ==
    IF calls = <<>> THEN c ELSE Fold(AfterCall(c, Head(calls)), Tail(calls))

----------------------------------------------------------------------------
(* C8 *)

\* C8: when the upload of add, update, remove or saveSettings fails, the
\* in-memory collection and settings keep their values and the user is told
\* that the data was not synchronised.
C8_FailedSaveKeepsStateAndAlerts ==
    [][(event'.op \in MutationPcs /\ event'.reply # "ok") =>
            /\ transactions' = transactions
            /\ settings' = settings
            /\ alertMsg' = "syncFailed"]_vars

C8_Witness ==
    /\ event.op = "uploadTransactions" /\ event.reply = "transport"
    /\ alertMsg = "syncFailed"
    /\ remote[event.path] # TxDoc(transactions)
    /\ Len(journal.calls) > 0

----------------------------------------------------------------------------
(* C9 *)

\* C9: a persistence call of a mutation or of load that fails with an auth
\* error forces de-authentication: in that step the session is cleared or the
\* logout is under way (its token revocation is pending).
C9_AuthErrorForcesLogout ==
    (event.op \in (LoadOps \cup MutationPcs) /\ event.reply = "auth") =>
        (~dbx \/ CountPc(inflight, {"revoke"}) > 0)

----------------------------------------------------------------------------
(* C10 *)

\* C10: a transport failure of a call of load or of a mutation leaves the
\* client, the token and the authenticated flag as they were, starts no
\* logout, changes nothing in the store and issues no upload.
C10_TransportFailureIsHarmless ==
    [][(event'.op \in (LoadOps \cup MutationPcs \cup {"getProfiles"})
            /\ event'.reply = "transport") =>
            /\ dbx' = dbx /\ token' = token /\ isAuthenticated' = isAuthenticated
            /\ remote' = remote
            /\ CountPc(inflight', WritePcs \cup {"revoke"})
                 <= CountPc(inflight, WritePcs \cup {"revoke"})]_vars

C10_Witness ==
    /\ event.op = "downloadTx" /\ event.reply = "transport"
    /\ dbx /\ token /\ isAuthenticated
    /\ alertMsg = "loadError"

----------------------------------------------------------------------------
(* C11 *)

\* C11: after a switch of profile the in-memory transactions and settings are
\* never set from the answer to a read issued while another profile was
\* active: whenever the answer to a download sets them, the download was
\* issued for a resource of the profile that is active now.
C11_NoStaleResponseApplied ==
    [][(event'.op \in {"downloadTx", "loadSettings"} /\ event'.reply = "found") =>
            event'.path \in {getPath(svcProfile, DATA_FILE),
                             getPath(svcProfile, SETTINGS_FILE)}]_vars

----------------------------------------------------------------------------
(* C12 *)

\* C12: profiles are isolated.  Every pending write addresses a resource of
\* the profile that was active when the operation issuing it began, and the
\* collection that add, update or remove sends to the ledger of the active
\* profile comes only from that profile: read from its ledger or changed
\* while it was active.
C12_ProfilesIsolated ==
    [][/\ \A t \in BagToSet(inflight') :
            t.pc \in WritePcs =>
                t.path \in {getPath(t.owner, DATA_FILE), getPath(t.owner, SETTINGS_FILE)}
       /\ (event'.op \in {"add", "update", "delete"}) =>
            journal'.from \subseteq {svcProfile'}]_vars

----------------------------------------------------------------------------
(* C13 *)

DirectoryPcs ==
    {"renameList", "renameWrite", "renameMove", "deleteFolder", "deleteList", "deleteWrite"}

\* C13: whatever create, rename and delete calls are made, the list of
\* profiles of the App and the registry, once written, contain Default; a
\* rename or a delete asked for while Default is the current profile changes
\* neither the store nor the list and issues no call, and no registry write,
\* folder move or folder removal is ever pending for Default.
C13_DefaultIsKept ==
    [][/\ Includes(profiles', "Default")
       /\ remote'[REGISTRY_PATH].kind = "registry" =>
            Includes(remote'[REGISTRY_PATH].names, "Default")
       /\ (event'.op \in {"renameProfile", "deleteProfile"} /\ currentProfile = "Default") =>
            /\ inflight' = inflight
            /\ remote' = remote
            /\ profiles' = profiles /\ currentProfile' = currentProfile
       /\ \A t \in BagToSet(inflight') : t.pc \in DirectoryPcs => t.owner # "Default"]_vars

C13_Witness ==
    /\ event.op = "renameProfile"
    /\ currentProfile = "Default"
    /\ Len(profiles) > 1
    /\ remote[REGISTRY_PATH].kind = "registry"

----------------------------------------------------------------------------
(* C14 *)

\* C14: a create for a name that the registry already lists, or for Default,
\* is rejected: it never completes (the name is not added to the list of
\* profiles) and leaves the registry as it is; and the registry never lists a
\* name twice.
C14_CreateRejectsListedName ==
    [][/\ (/\ event'.op \in {"createProfile", "addProfileList", "addProfileWrite"}
           /\ remote[REGISTRY_PATH].kind = "registry"
           /\ Len(profiles') = Len(profiles) + 1) =>
            /\ ~Includes(remote[REGISTRY_PATH].names, profiles'[Len(profiles')])
            /\ profiles'[Len(profiles')] # "Default"
       /\ \A i, j \in 1..Len(remote'[REGISTRY_PATH].names) :
            remote'[REGISTRY_PATH].names[i] = remote'[REGISTRY_PATH].names[j] => i = j]_vars

----------------------------------------------------------------------------
(* C15 *)

CreateOps == {"createProfile", "addProfileList", "addProfileWrite"}
DataPaths == Paths \ {REGISTRY_PATH}
Appears(p) == remote[p].kind = "absent" /\ remote'[p].kind # "absent"

\* C15 as claimed: once a profile is created, no resource comes to exist under
\* its sub-path before the first add, update, remove or saveSettings: a
\* resource of a profile other than Default appears only with the write of a
\* mutation (or with the folder that a rename moves).
C15_NoResourceBeforeFirstWrite ==
    [][\A p \in DataPaths :
            (Appears(p) /\ ProfileOf(p) # "Default") =>
                event'.op \in MutationPcs \cup {"renameMove"}]_vars

\* C15 amended: creating a profile writes the registry and nothing else: its
\* steps issue no write of a ledger or of settings and change the store at
\* most at the registry, and the create completes only with the name listed
\* in the registry.  The ledger of the new profile first appears as the empty
\* collection that a load writes (the load that the switch to the new profile
\* runs), or with the write of an add, update or remove; settings appear only
\* with the write of saveSettings; and each such write is issued by the
\* operation it belongs to.
C15_CreateWritesRegistryOnly ==
    [][/\ event'.op \in CreateOps =>
            /\ CountPc(inflight', WritePcs) = CountPc(inflight, WritePcs)
            /\ \A p \in DataPaths : remote'[p] = remote[p]
            /\ Len(profiles') = Len(profiles) + 1 =>
                /\ remote'[REGISTRY_PATH].kind = "registry"
                /\ Includes(remote'[REGISTRY_PATH].names, profiles'[Len(profiles')])
       /\ \A p \in DataPaths : Appears(p) =>
            \/ event'.op = "uploadEmpty" /\ remote'[p] = TxDoc(<<>>)
            \/ event'.op \in {"uploadTransactions", "uploadAfterDelete"}
                 /\ remote'[p].kind = "transactions"
            \/ event'.op = "uploadSettings" /\ remote'[p].kind = "settings"
            \/ event'.op = "renameMove"
       /\ CountPc(inflight', {"uploadEmpty"}) > CountPc(inflight, {"uploadEmpty"}) =>
            event'.op = "checkTx"
       /\ CountPc(inflight', {"uploadSettings"}) > CountPc(inflight, {"uploadSettings"}) =>
            event'.op = "saveSettings"
       /\ CountPc(inflight', {"uploadTransactions", "uploadAfterDelete"})
              > CountPc(inflight, {"uploadTransactions", "uploadAfterDelete"}) =>
            event'.op \in {"add", "update", "delete"}]_vars

C15_Witness ==
    /\ event.op = "uploadEmpty" /\ event.reply = "ok"
    /\ event.path = getPath("Home", DATA_FILE)
    /\ svcProfile = "Home" /\ Includes(profiles, "Home")
    /\ Includes(remote[REGISTRY_PATH].names, "Home")
    /\ remote[getPath("Home", DATA_FILE)] = TxDoc(<<>>)
    /\ remote[getPath("Home", SETTINGS_FILE)] = Absent

----------------------------------------------------------------------------
(* C16 *)

\* C16: when a rename of A to B has succeeded (renameProfile returns after its
\* folder move), the registry lists B and not A, and if A was the active
\* profile of the service the active profile is B and resource names resolve
\* under profiles/B/.
C16_RenameListsNewName ==
    [][(event'.op = "renameMove") =>
            LET A == event'.path[2]
                B == currentProfile'
                names == remote'[REGISTRY_PATH].names
            IN  /\ alertMsg' = "renameDone"
                /\ Includes(names, B) /\ ~Includes(names, A)
                /\ svcProfile = A =>
                    /\ svcProfile' = B
                    /\ getPath(svcProfile', DATA_FILE) = <<"profiles", B, DATA_FILE>>]_vars

----------------------------------------------------------------------------
(* C17 *)

\* C17: in a rename the folder move is issued only once the registry write
\* has succeeded; a move that fails because the source folder is not found is
\* swallowed and the rename succeeds; a move that fails otherwise (transport,
\* auth, destination conflict) makes the rename report a failure.
C17_MoveFailureSurfaced ==
    [][/\ CountPc(inflight', {"renameMove"}) > CountPc(inflight, {"renameMove"}) =>
            event'.op = "renameWrite" /\ event'.reply = "ok"
       /\ (event'.op = "renameMove" /\ event'.reply \in {"ok", "not_found"}) =>
            alertMsg' = "renameDone"
       /\ (event'.op = "renameMove" /\ event'.reply \in {"transport", "auth", "conflict"}) =>
            alertMsg' = "renameFailed"]_vars

----------------------------------------------------------------------------
(* C18 *)

\* C18: when a rename of A to B reports success, the ledger and the settings
\* that the store held under A are the ones it holds under B.
C18_RenameRelocatesData ==
    [][(event'.op = "renameMove" /\ alertMsg' = "renameDone") =>
            LET A == event'.path[2]
                B == currentProfile'
            IN  \A file \in {DATA_FILE, SETTINGS_FILE} :
                    remote'[getPath(B, file)] = remote[getPath(A, file)]]_vars

----------------------------------------------------------------------------
(* C19 *)

\* C19: when a delete of a profile other than Default reports success (its
\* registry write has succeeded), the removal of the folder was attempted
\* before the registry was read and written, the store holds no resource of
\* the profile, the registry does not list it, and the active profile is
\* Default if the deleted profile was the active one.
C19_DeleteLeavesNothing ==
    [][/\ CountPc(inflight', {"deleteList"}) > CountPc(inflight, {"deleteList"}) =>
            event'.op = "deleteFolder"
       /\ CountPc(inflight', {"deleteWrite"}) > CountPc(inflight, {"deleteWrite"}) =>
            event'.op = "deleteList"
       /\ (event'.op = "deleteWrite" /\ event'.reply = "ok") =>
            \A name \in ProfileNames :
                (Includes(profiles, name) /\ ~Includes(profiles', name)) =>
                    /\ \A file \in {DATA_FILE, SETTINGS_FILE} :
                            remote'[getPath(name, file)].kind = "absent"
                    /\ ~Includes(remote'[REGISTRY_PATH].names, name)
                    /\ svcProfile = name => svcProfile' = "Default"]_vars

----------------------------------------------------------------------------
(* C20 *)

\* C20: after a logout no path is resolved under the profile that was active:
\* as long as the service has no client no call is issued, and when the
\* session resumes (the service has a client again) the active profile of the
\* service and of the App is Default and the only call issued is the read of
\* the registry, so that the load that follows addresses the store root.
C20_LogoutResetsProfile ==
    [][~dbx =>
            /\ ~dbx' => BagCardinality(inflight') <= BagCardinality(inflight)
            /\ dbx' =>
                /\ svcProfile' = "Default" /\ currentProfile' = "Default"
                /\ \A t \in BagToSet(inflight') : t.path = REGISTRY_PATH]_vars

\* Home was created, which made it the active profile, as the only action of
\* the user; the session was then logged out (on a rejected token), and the
\* first load after the next login checks the ledger at the store root.
C20_Witness ==
    /\ event.op = "checkTx" /\ event.path = getPath("Default", DATA_FILE)
    /\ clicks = MaxClicks - 1
    /\ Includes(remote[REGISTRY_PATH].names, "Home")
    /\ dbx /\ svcProfile = "Default"

----------------------------------------------------------------------------
(* DropboxService.getPath on strings.  A string is the sequence of its      *)
(* characters, so that two paths are equal exactly when they are the same   *)
(* text.  The paths of the ledger model above are the segments of these.    *)

MaxNameLen == 2        \* characters of a profile name and of a resource name

Chars == {"a", "/"}
\* The strings of 1 to n characters.
Strings(n) == UNION {[1..k -> Chars] : k \in 1..n}
DefaultName == <<"D", "e", "f", "a", "u", "l", "t">>
ProfileStrings == Strings(MaxNameLen) \cup {DefaultName}
Filenames == Strings(MaxNameLen)

startsWith(str, prefix) ==
    Len(str) >= Len(prefix) /\ SubSeq(str, 1, Len(prefix)) = prefix
substring(str, from) == SubSeq(str, from + 1, Len(str))

\* A getPath that resolves every resource at the root.
getPathOf_root(profile, filename) ==
    <<"/">> \o (IF startsWith(filename, <<"/">>) THEN substring(filename, 1) ELSE filename)

getPathOf(profile, filename) ==
    LET cleanName == IF startsWith(filename, <<"/">>) THEN substring(filename, 1) ELSE filename
    IN  IF profile = DefaultName
        THEN <<"/">> \o cleanName
        ELSE <<"/", "p", "r", "o", "f", "i", "l", "e", "s", "/">> \o profile \o <<"/">> \o cleanName

\* Every variable of the ledger keeps the value it has before initAuth runs.
LedgerIdle ==
    /\ dbx = FALSE /\ token = FALSE /\ svcProfile = "Default"
    /\ remote = [p \in Paths |-> Absent]
    /\ isAuthenticated = FALSE /\ transactions = <<>> /\ settings = DEFAULT_SETTINGS
    /\ profiles = <<"Default">> /\ currentProfile = "Default"
    /\ editingTransaction = NoTx /\ hasCheckedAuth = FALSE
    /\ inflight = EmptyBag /\ nextId = 2 /\ clicks = 0
    /\ alertMsg = "none" /\ event = Event("none", "none", <<>>)
    /\ check = NoCheck /\ listing = NoListing /\ halted = {}
    /\ journal = [base |-> <<>>, calls |-> <<>>, from |-> {}]

\* resolved: the active profile of the service, and the last call of getPath:
\* the profile it ran under (<<>> before the first call), its argument and
\* the path it returned.
PathInit ==
    /\ LedgerIdle
    /\ resolved = [currentProfile |-> DefaultName, under |-> <<>>,
                   filename |-> <<>>, path |-> <<>>]
    /\ localSettings = "none" /\ form = "none" /\ stats = "none"

setProfile ==
    /\ \E profileName \in ProfileStrings :
            resolved' = [resolved EXCEPT !.currentProfile = profileName]
    /\ UNCHANGED <<ledgerVars, localSettings, form, stats>>

ResolvePath ==
    /\ \E filename \in Filenames :
            resolved' = [resolved EXCEPT
                            !.under = resolved.currentProfile,
                            !.filename = filename,
                            !.path = getPathOf(resolved.currentProfile, filename)]
    /\ UNCHANGED <<ledgerVars, localSettings, form, stats>>

PathNext == setProfile \/ ResolvePath

PathSpec == PathInit /\ [][PathNext]_vars

----------------------------------------------------------------------------
(* C21 *)

\* C21: getPath returns "/" followed by the resource name under Default and
\* "/profiles/<name>/" followed by the resource name under any other profile
\* (the resource name taken without its leading slash, if it has one), and no
\* other active profile resolves the same resource name to the same path.
C21_ResolveSeparatesProfiles ==
    resolved.under # <<>> =>
        LET name == IF resolved.filename # <<>> /\ resolved.filename[1] = "/"
                    THEN Tail(resolved.filename) ELSE resolved.filename
        IN  /\ resolved.under = DefaultName => resolved.path = <<"/">> \o name
            /\ resolved.under # DefaultName =>
                /\ Len(resolved.path) >= 10
                /\ SubSeq(resolved.path, 1, 10)
                     = <<"/", "p", "r", "o", "f", "i", "l", "e", "s", "/">>
                /\ SubSeq(resolved.path, 11, Len(resolved.path))
                     = resolved.under \o <<"/">> \o name
            /\ \A other \in ProfileStrings \ {resolved.under} :
                    getPathOf(other, resolved.filename) # resolved.path

\* A resource resolved under a profile that is not Default and whose name
\* itself holds a slash.
C21_Witness ==
    /\ resolved.under = <<"a", "/">>
    /\ resolved.filename = <<"a">>
    /\ resolved.path = <<"/", "p", "r", "o", "f", "i", "l", "e", "s", "/", "a", "/", "/", "a">>

----------------------------------------------------------------------------------------------------------------------------------------
(* SettingsDialog (src/components/SettingsDialog.tsx), the save of what it  *)
(* edits (handleSaveSettings, saveSettings) and the settings half of the    *)
(* load, on one profile.  Here a settings value carries the four            *)
(* vocabularies and the balances; initialBalances is optional, and          *)
(* hasInitialBalances tells whether the value has the property.  The        *)
(* store holds the JSON text of what is uploaded.                           *)

MaxEdits == 4          \* actions of the user on the dialog and the session

AppSettings(sources, destinations, hasBalances, balances) ==
    [commonSources |-> sources, commonDestinations |-> destinations,
     commonIncomeSources |-> <<"Salary">>, commonNotes |-> <<"Lunch">>,
     hasInitialBalances |-> hasBalances, initialBalances |-> balances]

\* DEFAULT_SETTINGS with its four vocabularies; it has no initialBalances.
DefaultAppSettings == AppSettings(<<"Cash", "Bank">>, <<"Food">>, FALSE, NoBalances)

\* What settings.json can hold when the session starts: the defaults, a value
\* saved from the dialog, and a value whose balances name an account that
\* its commonSources do not list.
StoredSettings ==
    {DefaultAppSettings,
     AppSettings(<<"Cash", "Bank">>, <<"Food">>, TRUE, [a \in {"Cash", "Bank"} |-> 5]),
     AppSettings(<<"Cash">>, <<"Food">>, TRUE, [a \in {"Cash", "Old"} |-> 5])}

\* JSON.stringify of a settings value: an object with a member for every
\* property that is not undefined.  keys are the names of its members.
JsonMembers(s) ==
    {"commonSources", "commonDestinations", "commonIncomeSources", "commonNotes"}
        \cup (IF s.hasInitialBalances THEN {"initialBalances"} ELSE {})
\* A stringify that leaves initialBalances out.
stringify_withoutBalances(s) ==
    [keys |-> {"commonSources", "commonDestinations", "commonIncomeSources", "commonNotes"},
     commonSources |-> s.commonSources, commonDestinations |-> s.commonDestinations,
     commonIncomeSources |-> s.commonIncomeSources, commonNotes |-> s.commonNotes,
     initialBalances |-> NoBalances]
stringify(s) ==
    [keys |-> JsonMembers(s),
     commonSources |-> s.commonSources, commonDestinations |-> s.commonDestinations,
     commonIncomeSources |-> s.commonIncomeSources, commonNotes |-> s.commonNotes,
     initialBalances |-> IF s.hasInitialBalances THEN s.initialBalances ELSE NoBalances]
\* JSON.parse of such a text: a property for every member.
parse(text) ==
    [commonSources |-> text.commonSources, commonDestinations |-> text.commonDestinations,
     commonIncomeSources |-> text.commonIncomeSources, commonNotes |-> text.commonNotes,
     hasInitialBalances |-> "initialBalances" \in text.keys,
     initialBalances |-> IF "initialBalances" \in text.keys
                         THEN text.initialBalances ELSE NoBalances]
NoText == [keys |-> {}, commonSources |-> <<>>, commonDestinations |-> <<>>,
           commonIncomeSources |-> <<>>, commonNotes |-> <<>>, initialBalances |-> NoBalances]

\* What the user types in a text box, and String.prototype.trim of it.
TextInputs == {"", " ", "Bank", " Cash "}
trim(text) == IF text = " " THEN "" ELSE IF text = " Cash " THEN "Cash" ELSE text
\* What a number box holds, and Number of it.
NumberInputs == {"", "5"}
Number(text) == IF text = "" THEN 0 ELSE 5

Elements(list) == {list[i] : i \in 1..Len(list)}
\* { ...balances, [name]: value }
WithEntry(balances, name, value) ==
    [a \in DOMAIN balances \cup {name} |-> IF a = name THEN value ELSE balances[a]]
\* delete balances[name]
WithoutEntry(balances, name) == [a \in DOMAIN balances \ {name} |-> balances[a]]
\* list.filter((_, i) => i !== index), index counted from 1
WithoutIndex(list, index) ==
    [i \in 1..(Len(list) - 1) |-> IF i < index THEN list[i] ELSE list[i + 1]]

\* A pending call of the settings file: the text it uploads, if it is an
\* upload, and the value saveSettings was given.
SettingsTask(pc, text, given) ==
    [pc |-> pc, path |-> getPath("Default", SETTINGS_FILE), doc |-> text, given |-> given]

\* journal: the value of the last save that was answered ok, if acked.
NoSave == [acked |-> FALSE, saved |-> DefaultAppSettings]

\* What no step of the dialog or of the settings file touches.
SessionFrame ==
    UNCHANGED <<dbx, token, svcProfile, isAuthenticated, transactions, profiles,
                currentProfile, editingTransaction, hasCheckedAuth, nextId, check,
                listing, halted, resolved, form, stats>>

\* The effect on the settings prop after setSettings(DEFAULT_SETTINGS): it
\* sets localSettings when the prop is another object than before.  Settings
\* equal to the defaults are the DEFAULT_SETTINGS object itself or a loaded
\* object with the same contents.
PropEffect(new) ==
    IF settings # new THEN {new} ELSE {localSettings, new}

\* One more action of the user, on the dialog alone.
DialogFrame ==
    /\ Click
    /\ UNCHANGED <<settings, remote, inflight, journal, alertMsg>>
    /\ SessionFrame

DialogInit ==
    /\ dbx = TRUE /\ token = TRUE /\ svcProfile = "Default"
    /\ \E stored \in StoredSettings :
        /\ remote = [p \in {getPath("Default", SETTINGS_FILE)} |-> stringify(stored)]
        /\ settings = parse(stringify(stored))
    /\ isAuthenticated = TRUE /\ transactions = <<>>
    /\ profiles = <<"Default">> /\ currentProfile = "Default"
    /\ editingTransaction = NoTx /\ hasCheckedAuth = TRUE
    /\ inflight = EmptyBag /\ nextId = 2 /\ clicks = MaxEdits
    /\ alertMsg = "none" /\ event = Event("none", "none", <<>>)
    /\ check = NoCheck /\ listing = NoListing /\ halted = {}
    /\ journal = NoSave
    /\ localSettings = settings
    /\ resolved = "none" /\ form = "none" /\ stats = "none"

handleAddSource ==
    /\ \E newSource \in TextInputs :
        /\ trim(newSource) # ""
        /\ LET name == trim(newSource)
           IN  /\ localSettings' =
                    [localSettings EXCEPT
                        !.commonSources = Append(@, name),
                        !.hasInitialBalances = TRUE,
                        !.initialBalances = WithEntry(@, name, 0)]
               /\ event' = Event("handleAddSource", name, <<>>)
    /\ DialogFrame

\* A handleDeleteSource that leaves the balances as they are.
handleDeleteSource_keepsBalances(index) ==
    /\ localSettings' = [localSettings EXCEPT !.commonSources = WithoutIndex(@, index)]
    /\ event' = Event("handleDeleteSource", localSettings.commonSources[index], <<>>)
    /\ DialogFrame

handleDeleteSource(index) ==
    LET nameToRemove == localSettings.commonSources[index]
    IN  /\ localSettings' =
            [localSettings EXCEPT
                !.commonSources = WithoutIndex(@, index),
                !.hasInitialBalances = TRUE,
                !.initialBalances = WithoutEntry(@, nameToRemove)]
        /\ event' = Event("handleDeleteSource", nameToRemove, <<>>)
        /\ DialogFrame

handleInitialBalanceChange(account, amount) ==
    /\ localSettings' =
            [localSettings EXCEPT
                !.hasInitialBalances = TRUE,
                !.initialBalances = WithEntry(@, account, Number(amount))]
    /\ event' = Event("handleInitialBalanceChange", account, <<>>)
    /\ DialogFrame

handleAddDestination ==
    /\ \E newDestination \in TextInputs :
        /\ trim(newDestination) # ""
        /\ localSettings' =
                [localSettings EXCEPT !.commonDestinations = Append(@, trim(newDestination))]
        /\ event' = Event("handleAddDestination", trim(newDestination), <<>>)
    /\ DialogFrame

handleDeleteDestination(index) ==
    /\ localSettings' = [localSettings EXCEPT !.commonDestinations = WithoutIndex(@, index)]
    /\ event' = Event("handleDeleteDestination", localSettings.commonDestinations[index], <<>>)
    /\ DialogFrame

\* handleSave: onSave(localSettings) is handleSaveSettings, which sets the
\* App settings and calls saveSettings with the same value; uploadFile
\* stringifies it at the call.  (The effect on the settings prop then sets
\* localSettings to the value it already has.)
handleSave ==
    /\ Click
    /\ settings' = localSettings
    /\ localSettings' = localSettings
    /\ inflight' = inflight (+) SetToBag({SettingsTask("uploadSettings",
                                                       stringify(localSettings),
                                                       localSettings)})
    /\ event' = Event("saveSettings", "none", getPath("Default", SETTINGS_FILE))
    /\ UNCHANGED <<remote, journal, alertMsg>>
    /\ SessionFrame

\* The upload of saveSettings is answered.
SaveSettingsDone(t) ==
    /\ t.pc = "uploadSettings"
    /\ inflight' = inflight (-) SetToBag({t})
    /\ \E f \in {"ok", "transport"} :
        /\ event' = Event("uploadSettings", f, t.path)
        /\ remote' = IF f = "ok" THEN [remote EXCEPT ![t.path] = t.doc] ELSE remote
        /\ journal' = IF f = "ok" THEN [acked |-> TRUE, saved |-> t.given] ELSE journal
        /\ alertMsg' = IF f = "ok" THEN "none" ELSE "syncFailed"
    /\ UNCHANGED <<settings, localSettings, clicks>>
    /\ SessionFrame

\* The profile is loaded again (handleSwitchProfile back to it): the settings
\* are reset to the defaults and, the data half done, the settings file is
\* looked for.  The effect on the settings prop resets the dialog.
ReloadSettings ==
    /\ Click
    /\ settings' = DefaultAppSettings
    /\ localSettings' = DefaultAppSettings
    /\ inflight' = inflight (+) SetToBag({SettingsTask("checkSettings", NoText,
                                                       DefaultAppSettings)})
    /\ event' = Event("switchProfile", "none", <<>>)
    /\ UNCHANGED <<remote, journal, alertMsg>>
    /\ SessionFrame

\* checkFileExists('settings.json') is answered.
SettingsCheckDone(t) ==
    /\ t.pc = "checkSettings"
    /\ \E f \in {"ok", "transport"} :
        LET reply == IF f = "ok" THEN "found" ELSE f
            r == checkFileExists(TRUE, reply)
        IN  /\ event' = Event("checkSettings", reply, t.path)
            /\ inflight' = (inflight (-) SetToBag({t})) (+)
                    (IF r = "true"
                     THEN SetToBag({SettingsTask("loadSettings", NoText, DefaultAppSettings)})
                     ELSE EmptyBag)
            /\ settings' = IF r = "true" THEN settings ELSE DefaultAppSettings
            /\ localSettings' \in IF r = "true" THEN {localSettings}
                                  ELSE PropEffect(DefaultAppSettings)
    /\ UNCHANGED <<remote, journal, alertMsg, clicks>>
    /\ SessionFrame

\* A loadSettings that keeps the settings in memory.
loadSettingsDone_keeps(reply, text) == settings

\* The settings in memory once the download of loadSettings is answered.
loadSettingsDone(reply, text) ==
    IF downloadFile(reply) = "data" THEN parse(text)
    ELSE IF downloadFile(reply) = "null" THEN settings
    ELSE DefaultAppSettings

SettingsLoadDone(t) ==
    /\ t.pc = "loadSettings"
    /\ inflight' = inflight (-) SetToBag({t})
    /\ \E f \in {"ok", "transport"} :
        LET reply == IF f = "ok" THEN "found" ELSE f
        IN  /\ event' = Event("loadSettings", reply, t.path)
            /\ settings' = loadSettingsDone(reply, remote[t.path])
            /\ localSettings' \in
                    IF downloadFile(reply) = "data" THEN {settings'}
                    ELSE IF downloadFile(reply) = "null" THEN {localSettings}
                    ELSE PropEffect(DefaultAppSettings)
    /\ UNCHANGED <<remote, journal, alertMsg, clicks>>
    /\ SessionFrame

DialogNext ==
    \/ handleAddSource
    \/ \E index \in 1..Len(localSettings.commonSources) : handleDeleteSource(index)
    \/ \E account \in Elements(localSettings.commonSources), amount \in NumberInputs :
            handleInitialBalanceChange(account, amount)
    \/ handleAddDestination
    \/ \E index \in 1..Len(localSettings.commonDestinations) : handleDeleteDestination(index)
    \/ handleSave
    \/ \E t \in BagToSet(inflight) : SaveSettingsDone(t)
    \/ ReloadSettings
    \/ \E t \in BagToSet(inflight) : SettingsCheckDone(t)
    \/ \E t \in BagToSet(inflight) : SettingsLoadDone(t)

DialogSpec == DialogInit /\ [][DialogNext]_vars

\* The keys of initialBalances are among commonSources.
BalancesListed(s) == DOMAIN s.initialBalances \subseteq Elements(s.commonSources)

DialogEdits ==
    {"handleAddSource", "handleDeleteSource", "handleInitialBalanceChange",
     "handleAddDestination", "handleDeleteDestination"}

\* Every edit of the dialog keeps the balances listed if they were.
DialogEditsKeepBalancesListed ==
    [][(BalancesListed(localSettings) /\ event'.op \in DialogEdits)
            => BalancesListed(localSettings')]_vars

----------------
(* C22 *)

\* C22: every settings value handed to saveSettings has the keys of its
\* initialBalances among its commonSources.
C22_SavedBalancesAreListed ==
    event.op = "saveSettings" => BalancesListed(settings)

----------------------------------------------------------------------------
(* C23 *)

\* C23: deleting an account from commonSources removes the initialBalances
\* entry of that name and no other: every other entry keeps its value,
\* commonSources loses the one position, and commonDestinations,
\* commonIncomeSources and commonNotes are as before.
C23_DeleteSourceRemovesOneEntry ==
    [][event'.op = "handleDeleteSource" =>
            LET name == event'.reply
                before == localSettings.initialBalances
                after == localSettings'.initialBalances
            IN  /\ DOMAIN after = DOMAIN before \ {name}
                /\ \A a \in DOMAIN after : after[a] = before[a]
                /\ Len(localSettings'.commonSources) = Len(localSettings.commonSources) - 1
                /\ localSettings'.commonDestinations = localSettings.commonDestinations
                /\ localSettings'.commonIncomeSources = localSettings.commonIncomeSources
                /\ localSettings'.commonNotes = localSettings.commonNotes]_vars

\* Cash was deleted while Bank had a balance of its own, which it keeps.
C23_Witness ==
    /\ event.op = "handleDeleteSource" /\ event.reply = "Cash"
    /\ localSettings.commonSources = <<"Bank">>
    /\ DOMAIN localSettings.initialBalances = {"Bank"}
    /\ localSettings.initialBalances["Bank"] = 5

----------------------------------------------------------------------------
(* C24 *)

----------------------------------------------------------------------------
(* Dashboard (src/components/Dashboard.tsx): the stats memo.                *)
(*                                                                          *)
(* A JavaScript number is a binary floating-point value: the result of      *)
(* every + and - is rounded to the significand.  The model keeps that with  *)
(* a significand of SignificantDigits decimal digits: numbers are counted   *)
(* in hundredths, so that 1 is 0.01 and 10000 is 100, whole amounts below   *)
(* 1000 add up exactly, and a sum that needs more digits is rounded.        *)

MaxTransactions == 2   \* transactions of the collection the Dashboard is given

SignificantDigits == 3
Abs(x) == IF x < 0 THEN -x ELSE x
\* The distance between neighbouring numbers of magnitude m, in hundredths.
Ulp(m) ==
    IF m < 10 ^ SignificantDigits THEN 1
    ELSE IF m < 10 ^ (SignificantDigits + 1) THEN 10
    ELSE IF m < 10 ^ (SignificantDigits + 2) THEN 100
    ELSE 1000
Round(x) ==
    LET u == Ulp(Abs(x))
        r == ((Abs(x) + u \div 2) \div u) * u
    IN  IF x < 0 THEN -r ELSE r
plus(a, b) == Round(a + b)
minus(a, b) == Round(a - b)

\* A date is the text YYYY/MM/DD, kept as its fields and separators.
Months == {"10", "11"}
DateOf(month) == <<"2026", "/", month, "/", "15">>
\* t.date.replace(/\//g, '-')
replaceSlashes(date) == [i \in 1..Len(date) |-> IF date[i] = "/" THEN "-" ELSE date[i]]
\* new Date().toISOString().slice(0, 7) in month now
currentMonthOf(now) == <<"2026", "-", now>>

Transaction(type, source, destination, amount, date) ==
    [type |-> type, source |-> source, destination |-> destination,
     amount |-> amount, date |-> date]
\* type "" is a transaction stored without a type.
TransactionTypes == {"", "EXPENSE", "INCOME", "TRANSFER"}
StatAmounts == {900, 1000, 3000}
StatTransactions ==
    {Transaction(type, source, destination, amount, DateOf(month)) :
        type \in TransactionTypes, source \in {"Cash", "Wallet"},
        destination \in {"Cash", "Bank"}, amount \in StatAmounts, month \in Months}

\* The props of the Dashboard: settings.commonSources and
\* settings.initialBalances (which is undefined when has is FALSE).
AccountLists == {<<"Cash">>, <<"Cash", "Bank">>}
BalanceProps ==
    {[has |-> FALSE, of |-> NoBalances],
     [has |-> TRUE, of |-> [a \in {"Cash"} |-> 10000]],
     [has |-> TRUE, of |-> [a \in {"Cash"} |-> 1]]}

\* The balances object: its keys in the order they were first set, and the
\* value of each.
NoKeys == [keys |-> <<>>, val |-> NoBalances]
\* balances[k] || 0
Get(b, k) == IF k \in DOMAIN b.val THEN b.val[k] ELSE 0
\* balances[k] = v
Put(b, k, v) ==
    [keys |-> IF k \in DOMAIN b.val THEN b.keys ELSE Append(b.keys, k),
     val |-> [a \in DOMAIN b.val \cup {k} |-> IF a = k THEN v ELSE b.val[a]]]

\* accounts.forEach(acc => balances[acc] = initialBalances[acc] || 0)
RECURSIVE initialise(_, _, _)
initialise(b, accounts, initialBalances) ==
    IF accounts = <<>> THEN b
    ELSE initialise(Put(b, Head(accounts),
                        IF Head(accounts) \in DOMAIN initialBalances
                        THEN initialBalances[Head(accounts)] ELSE 0),
                    Tail(accounts), initialBalances)

\* A walk in which an INCOME credits no account.
forEachTransaction_incomeLost(st, t, currentMonth) ==
    IF t.type = "INCOME" THEN st
    ELSE [st EXCEPT !.balances = Put(@, t.source, minus(Get(@, t.source), t.amount))]

\* One round of transactions.forEach.
forEachTransaction(st, t, currentMonth) ==
    LET amount == t.amount
        isCurrentMonth == startsWith(replaceSlashes(t.date), currentMonth)
        debit(b) == IF t.source # "" THEN Put(b, t.source, minus(Get(b, t.source), amount))
                    ELSE b
        credit(b) == IF t.destination # ""
                     THEN Put(b, t.destination, plus(Get(b, t.destination), amount))
                     ELSE b
    IN  IF t.type = "" \/ t.type = "EXPENSE"
        THEN [st EXCEPT !.balances = debit(@),
                        !.monthlyExpense = IF isCurrentMonth THEN plus(@, amount) ELSE @]
        ELSE IF t.type = "INCOME"
        THEN [st EXCEPT !.balances = credit(@),
                        !.monthlyIncome = IF isCurrentMonth THEN plus(@, amount) ELSE @]
        ELSE IF t.type = "TRANSFER"
        THEN [st EXCEPT !.balances = credit(debit(@))]
        ELSE st

RECURSIVE walk(_, _, _)
walk(st, txs, currentMonth) ==
    IF txs = <<>> THEN st
    ELSE walk(forEachTransaction(st, Head(txs), currentMonth), Tail(txs), currentMonth)

\* Object.values(balances).reduce((acc, val) => acc + val, 0)
RECURSIVE reduceSum(_, _, _)
reduceSum(acc, keys, val) ==
    IF keys = <<>> THEN acc
    ELSE reduceSum(plus(acc, val[Head(keys)]), Tail(keys), val)

\* The function of the memo, in month now.
computeStats(txs, accounts, initialBalances, now) ==
    LET st == walk([balances |-> initialise(NoKeys, accounts, initialBalances),
                    monthlyIncome |-> 0, monthlyExpense |-> 0],
                   txs, currentMonthOf(now))
    IN  [balances |-> st.balances,
         totalAssets |-> reduceSum(0, st.balances.keys, st.balances.val),
         monthlyIncome |-> st.monthlyIncome,
         monthlyExpense |-> st.monthlyExpense]

\* stats: the props, the month it is (now), the memo (the value and the month
\* it was computed in) and the month of the last render.
Props(txs, accounts, balances) ==
    [transactions |-> txs, accounts |-> accounts, initialBalances |-> balances]
Rendered(props, now) ==
    [props |-> props, now |-> now, rendered |-> now,
     memo |-> [month |-> now,
               value |-> computeStats(props.transactions, props.accounts,
                                      props.initialBalances.of, now)]]

StatsInit ==
    /\ LedgerIdle
    /\ \E accounts \in AccountLists, balances \in BalanceProps :
            stats = Rendered(Props(<<>>, accounts, balances), "10")
    /\ resolved = "none" /\ localSettings = "none" /\ form = "none"

StatsFrame == UNCHANGED <<ledgerVars, resolved, localSettings, form>>

\* setTransactions with one more transaction, and the render that follows:
\* the transactions prop is a new array, so the memo is computed again.
TransactionAdded ==
    /\ Len(stats.props.transactions) < MaxTransactions
    /\ \E t \in StatTransactions :
        stats' = Rendered([stats.props EXCEPT !.transactions = Append(@, t)], stats.now)
    /\ StatsFrame

\* setTransactions without one of them, and the render that follows.
TransactionRemoved ==
    /\ \E i \in 1..Len(stats.props.transactions) :
        stats' = Rendered([stats.props EXCEPT !.transactions = WithoutIndex(@, i)], stats.now)
    /\ StatsFrame

\* setSettings, and the render that follows.
SettingsChanged ==
    /\ \E accounts \in AccountLists, balances \in BalanceProps :
        stats' = Rendered([stats.props EXCEPT !.accounts = accounts,
                                              !.initialBalances = balances], stats.now)
    /\ StatsFrame

\* App renders again for a state that is no prop of the Dashboard.  The
\* dependencies of the memo are the three props: transactions and accounts
\* are the same arrays as before; initialBalances is the same object if the
\* settings have one, and the default {} of this render if they have none.
Rerender ==
    /\ stats' = IF stats.props.initialBalances.has
                THEN [stats EXCEPT !.rendered = stats.now]
                ELSE Rendered(stats.props, stats.now)
    /\ StatsFrame

\* The month ends.
MonthEnds ==
    /\ stats.now = "10"
    /\ stats' = [stats EXCEPT !.now = "11"]
    /\ StatsFrame

StatsNext ==
    \/ TransactionAdded
    \/ TransactionRemoved
    \/ SettingsChanged
    \/ Rerender
    \/ MonthEnds

StatsSpec == StatsInit /\ [][StatsNext]_vars

----------------------------------------------------------------------------
(* Reference figures of the Dashboard *)

Debits(t, acc) == t.type \in {"", "EXPENSE", "TRANSFER"} /\ t.source = acc
Credits(t, acc) == t.type \in {"INCOME", "TRANSFER"} /\ t.destination = acc

\* The accounts: those listed and those a transaction debits or credits.
RefAccounts(txs, accounts) ==
    Elements(accounts)
        \cup {txs[i].source : i \in {j \in 1..Len(txs) : Debits(txs[j], txs[j].source)}}
        \cup {txs[i].destination : i \in {j \in 1..Len(txs) : Credits(txs[j], txs[j].destination)}}

\* The balance of acc after the first n transactions, in collection order.
RECURSIVE RefBalance(_, _, _, _)
RefBalance(acc, txs, initialBalances, n) ==
    IF n = 0
    THEN IF acc \in DOMAIN initialBalances THEN initialBalances[acc] ELSE 0
    ELSE LET before == RefBalance(acc, txs, initialBalances, n - 1)
             debited == IF Debits(txs[n], acc) THEN minus(before, txs[n].amount) ELSE before
         IN  IF Credits(txs[n], acc) THEN plus(debited, txs[n].amount) ELSE debited

\* The sum of the first n of the balances, taken in the order of keys.
RECURSIVE RefTotal(_, _, _, _)
RefTotal(keys, txs, initialBalances, n) ==
    IF n = 0 THEN 0
    ELSE plus(RefTotal(keys, txs, initialBalances, n - 1),
              RefBalance(keys[n], txs, initialBalances, Len(txs)))

\* The amounts, summed in collection order, of the transactions of one of
\* types that are dated in month.
RECURSIVE RefMonthly(_, _, _, _)
RefMonthly(types, txs, month, n) ==
    IF n = 0 THEN 0
    ELSE IF txs[n].type \in types /\ txs[n].date[1] = "2026" /\ txs[n].date[3] = month
    THEN plus(RefMonthly(types, txs, month, n - 1), txs[n].amount)
    ELSE RefMonthly(types, txs, month, n - 1)

Orders(n) == {f \in [1..n -> 1..n] : \A i, j \in 1..n : f[i] = f[j] => i = j}
Permuted(txs, f) == [i \in 1..Len(txs) |-> txs[f[i]]]
\* The figures of two results are the same: the balance of every account,
\* the total and the two monthly figures.
SameFigures(a, b) ==
    /\ a.balances.val = b.balances.val
    /\ a.totalAssets = b.totalAssets
    /\ a.monthlyIncome = b.monthlyIncome
    /\ a.monthlyExpense = b.monthlyExpense

\* Every initial balance is a whole amount.
WholeBalances(initialBalances) ==
    \A a \in DOMAIN initialBalances : initialBalances[a] % 100 = 0

\* With whole amounts and whole initial balances no sum is rounded, and the
\* figures are the same for every order of the collection.
StatsOrderIndependentOnWholeAmounts ==
    WholeBalances(stats.props.initialBalances.of) =>
        \A f \in Orders(Len(stats.props.transactions)) :
            SameFigures(computeStats(Permuted(stats.props.transactions, f),
                                     stats.props.accounts,
                                     stats.props.initialBalances.of, stats.memo.month),
                        stats.memo.value)

\* The monthly figures of the memo are those of the month it was computed in.
StatsMonthlyAsComputed ==
    /\ stats.memo.value.monthlyIncome =
            RefMonthly({"INCOME"}, stats.props.transactions, stats.memo.month,
                       Len(stats.props.transactions))
    /\ stats.memo.value.monthlyExpense =
            RefMonthly({"", "EXPENSE"}, stats.props.transactions, stats.memo.month,
                       Len(stats.props.transactions))

----------------------------------------------------------------------------
(* C25 *)

\* C25: the balances of the stats are those of the reference: there is one
\* for every account that is listed or that a transaction debits or credits,
\* and each is the account's initial balance (0 when it has none), less the
\* amount of every EXPENSE (or untyped) and TRANSFER transaction from the
\* account and plus the amount of every INCOME and TRANSFER transaction to
\* it, taken in collection order; totalAssets is the sum of these balances.
C25_StatsEqualReference ==
    LET v == stats.memo.value
        p == stats.props
        keys == v.balances.keys
    IN  /\ DOMAIN v.balances.val = RefAccounts(p.transactions, p.accounts)
        /\ Elements(keys) = DOMAIN v.balances.val
        /\ \A i, j \in 1..Len(keys) : keys[i] = keys[j] => i = j
        /\ \A acc \in DOMAIN v.balances.val :
                v.balances.val[acc] =
                    RefBalance(acc, p.transactions, p.initialBalances.of, Len(p.transactions))
        /\ v.totalAssets = RefTotal(keys, p.transactions, p.initialBalances.of, Len(keys))

\* The example: Cash with an initial balance of 100 and one EXPENSE of 30
\* from Cash give a balance of 70 and total assets of 70.
C25_Witness ==
    /\ stats.props.accounts = <<"Cash">>
    /\ stats.props.initialBalances.of = [a \in {"Cash"} |-> 10000]
    /\ Len(stats.props.transactions) = 1
    /\ stats.props.transactions[1].type = "EXPENSE"
    /\ stats.props.transactions[1].source = "Cash"
    /\ stats.props.transactions[1].amount = 3000
    /\ stats.memo.value.balances.val = [a \in {"Cash"} |-> 7000]
    /\ stats.memo.value.totalAssets = 7000

----------------------------------------------------------------------------
(* C26 *)

\* C26: for every permutation of the transaction collection the stats are
\* the same: the balance of every account, totalAssets, monthlyIncome and
\* monthlyExpense.
C26_StatsOrderIndependent ==
    \A f \in Orders(Len(stats.props.transactions)) :
        SameFigures(computeStats(Permuted(stats.props.transactions, f),
                                 stats.props.accounts,
                                 stats.props.initialBalances.of, stats.memo.month),
                    stats.memo.value)

----------------------------------------------------------------------------
(* C27 *)

\* C27: the monthly figures a render shows are those of the month of that
\* render: monthlyIncome the sum of the INCOME amounts and monthlyExpense the
\* sum of the EXPENSE (or untyped) amounts dated in it, a TRANSFER counting
\* for neither; also in a render after the month has changed with the same
\* transactions, accounts and initial balances.
C27_MonthlyFiguresAreCurrent ==
    /\ stats.memo.value.monthlyIncome =
            RefMonthly({"INCOME"}, stats.props.transactions, stats.rendered,
                       Len(stats.props.transactions))
    /\ stats.memo.value.monthlyExpense =
            RefMonthly({"", "EXPENSE"}, stats.props.transactions, stats.rendered,
                       Len(stats.props.transactions))

----------------------------------------------------------------------------
(* TransactionForm: the fields, the two effects, the handlers of the split  *)
(* amounts and handleSubmit, with handleAddTransaction, which onSubmit is,  *)
(* and the edit and delete buttons of TransactionList.                      *)

MaxFormSteps == 8      \* actions of the user on the form and the list

\* The values a field of type number | string holds: the text of a number box
\* ('' when the box is empty or holds no number) or a number set by code.
EmptyText == [isString |-> TRUE, empty |-> TRUE, n |-> 0]
Text(n) == [isString |-> TRUE, empty |-> FALSE, n |-> n]
Num(n) == [isString |-> FALSE, empty |-> FALSE, n |-> n]
\* !v is false: a non-empty string (also "0"), or a number other than 0.
Truthy(v) == IF v.isString THEN ~v.empty ELSE v.n # 0
\* Number(v): the number a numeric text denotes, 0 for '', v for a number.
ToNumber(v) == IF v.isString /\ v.empty THEN 0 ELSE v.n

\* What the user types: the boxes have no min, max or required attribute, and
\* the default step admits every whole number.
AmountInputs == {EmptyText, Text(0), Text(5), Text(-4), Text(101)}
SplitInputs == {EmptyText, Text(2), Text(9)}
SourceInputs == {"", "Cash"}
DestinationInputs == {"", "Food", "Fun"}
FormTypes == {"EXPENSE", "INCOME", "TRANSFER"}
Today == DateOf("11")
\* The label an expense without a category is stored under.
UNCATEGORIZED == "uncategorized"

\* A Transaction as the form builds it; projectCode and invoiceNumber are
\* always '' and left out.  Id 0 is no transaction (null).
FormTransaction(id, type, date, source, destination, amount, summary, payer) ==
    [id |-> id, type |-> type, date |-> date, source |-> source,
     destination |-> destination, amount |-> amount, summary |-> summary, payer |-> payer]
NoFormTransaction == FormTransaction(0, "", "", "", "", 0, "", "")
\* The ledger the session starts with: one expense of an earlier month.
StoredTransaction == FormTransaction(1, "EXPENSE", DateOf("10"), "Cash", "Food", 5, "", "")

\* What the user has typed into the text fields of the entry.
Notes == {[summary |-> "", payer |-> ""], [summary |-> "lunch", payer |-> "Ann"]}
\* useState: the initial values of the fields, and a source and notes typed.
FormFields(source, note) ==
    [type |-> "EXPENSE", date |-> Today, source |-> source, destination |-> "",
     amount |-> EmptyText, summary |-> note.summary, payer |-> note.payer, isSplit |-> FALSE,
     destinationA |-> "", destinationB |-> "", amountA |-> EmptyText, amountB |-> EmptyText]

\* date.replace(/-/g, '/'): a date with dashes becomes one with slashes.
replaceDashes(date) == [i \in 1..Len(date) |-> IF date[i] = "-" THEN "/" ELSE date[i]]

\* A split effect that gives the first item the larger half.
splitEffect_ceiling(old, new) ==
    IF (new.amount # old.amount \/ new.isSplit # old.isSplit)
       /\ new.isSplit /\ Truthy(new.amount)
    THEN LET total == ToNumber(new.amount)
             half == (total + 1) \div 2
         IN  [new EXCEPT !.amountA = Num(half), !.amountB = Num(total - half)]
    ELSE new

\* The effect on [amount, isSplit], run after a render that changed either.
splitEffect(old, new) ==
    IF (new.amount # old.amount \/ new.isSplit # old.isSplit)
       /\ new.isSplit /\ Truthy(new.amount)
    THEN LET total == ToNumber(new.amount)
             half == total \div 2
         IN  [new EXCEPT !.amountA = Num(half), !.amountB = Num(total - half)]
    ELSE new

\* The effect on [editingTransaction], for a transaction.
editEffect(f, t) ==
    [f EXCEPT !.date = t.date, !.amount = Num(t.amount), !.summary = t.summary,
              !.source = t.source, !.destination = t.destination, !.payer = t.payer,
              !.type = IF t.type # "" THEN t.type ELSE "EXPENSE",
              !.isSplit = FALSE]

\* type === 'EXPENSE' ? (destination || uncategorized) : destination
destinationOf_asEntered(type, destination) == destination
destinationOf(type, destination) ==
    IF type = "EXPENSE"
    THEN IF destination # "" THEN destination ELSE UNCATEGORIZED
    ELSE destination

\* What the form leaves alone.
FormFrame ==
    UNCHANGED <<dbx, token, svcProfile, remote, isAuthenticated, settings, profiles,
                currentProfile, hasCheckedAuth, inflight, alertMsg, check, listing,
                halted, resolved, localSettings, stats>>
\* A change of a field: nothing reaches App.
FieldFrame ==
    /\ Click
    /\ event' = Event("field", "none", <<>>)
    /\ UNCHANGED <<transactions, editingTransaction, nextId, journal>>
    /\ FormFrame

FormInit ==
    /\ dbx = TRUE /\ token = TRUE /\ svcProfile = "Default"
    /\ remote = [p \in Paths |-> Absent]
    /\ isAuthenticated = TRUE /\ transactions = <<StoredTransaction>>
    /\ settings = DEFAULT_SETTINGS
    /\ profiles = <<"Default">> /\ currentProfile = "Default"
    /\ editingTransaction = NoFormTransaction /\ hasCheckedAuth = TRUE
    /\ inflight = EmptyBag /\ nextId = 2 /\ clicks = MaxFormSteps
    /\ alertMsg = "none" /\ event = Event("none", "none", <<>>)
    /\ check = NoCheck /\ listing = NoListing /\ halted = {}
    /\ journal = <<>>
    /\ \E source \in SourceInputs, note \in Notes : form = FormFields(source, note)
    /\ resolved = "none" /\ localSettings = "none" /\ stats = "none"

\* The type tabs: setType and setIsSplit(false).
setType ==
    /\ \E type \in FormTypes :
            form' = splitEffect(form, [form EXCEPT !.type = type, !.isSplit = FALSE])
    /\ FieldFrame

setSource ==
    /\ \E text \in SourceInputs : form' = [form EXCEPT !.source = text]
    /\ FieldFrame

setDestination ==
    /\ ~form.isSplit
    /\ \E text \in DestinationInputs : form' = [form EXCEPT !.destination = text]
    /\ FieldFrame

setDestinationA ==
    /\ form.isSplit
    /\ \E text \in DestinationInputs : form' = [form EXCEPT !.destinationA = text]
    /\ FieldFrame

setDestinationB ==
    /\ form.isSplit
    /\ \E text \in DestinationInputs : form' = [form EXCEPT !.destinationB = text]
    /\ FieldFrame

setAmount ==
    /\ \E text \in AmountInputs :
            form' = splitEffect(form, [form EXCEPT !.amount = text])
    /\ FieldFrame

\* The split toggle, shown for an expense.
setIsSplit ==
    /\ form.type = "EXPENSE"
    /\ form' = splitEffect(form, [form EXCEPT !.isSplit = ~form.isSplit])
    /\ FieldFrame

handleAmountAChange ==
    /\ form.isSplit
    /\ \E val \in SplitInputs :
        LET total == ToNumber(form.amount)
            valNum == ToNumber(val)
        IN  form' = [form EXCEPT !.amountA = val, !.amountB = Num(total - valNum)]
    /\ FieldFrame

handleAmountBChange ==
    /\ form.isSplit
    /\ \E val \in SplitInputs :
        LET total == ToNumber(form.amount)
            valNum == ToNumber(val)
        IN  form' = [form EXCEPT !.amountB = val, !.amountA = Num(total - valNum)]
    /\ FieldFrame

\* The transactions handleSubmit passes to onSubmit, <<>> when it returns
\* before the call.
Submitted(f, editing, id) ==
    IF f.source = "" \/ ~Truthy(f.amount) THEN <<>>
    ELSE IF f.type \in {"INCOME", "TRANSFER"} /\ f.destination = "" THEN <<>>
    ELSE LET date == replaceDashes(f.date)
             amount == ToNumber(f.amount)
         IN  IF editing # NoFormTransaction
             THEN <<FormTransaction(editing.id, f.type, date, f.source,
                                    destinationOf(f.type, f.destination), amount,
                                    f.summary, f.payer)>>
             ELSE IF f.type = "EXPENSE" /\ f.isSplit
             THEN IF f.destinationA = "" \/ f.destinationB = "" THEN <<>>
                  ELSE <<FormTransaction(id, f.type, date, f.source, f.destinationA,
                                         ToNumber(f.amountA), f.summary, f.payer),
                         FormTransaction(id + 1, "EXPENSE", date, f.source, f.destinationB,
                                         ToNumber(f.amountB), f.summary, f.payer)>>
             ELSE <<FormTransaction(id, f.type, date, f.source,
                                    destinationOf(f.type, f.destination), amount,
                                    f.summary, f.payer)>>

\* handleSubmit and, when it calls onSubmit, handleAddTransaction up to the
\* upload it issues; journal is the collection of the last upload.
handleSubmit ==
    /\ Click
    /\ LET newTransactions == Submitted(form, editingTransaction, nextId)
           update == editingTransaction # NoFormTransaction /\ Len(newTransactions) = 1
           updated ==
               IF update
               THEN [i \in 1..Len(transactions) |->
                        IF transactions[i].id = newTransactions[1].id
                        THEN newTransactions[1] ELSE transactions[i]]
               ELSE transactions \o newTransactions
       IN  IF newTransactions = <<>>
           THEN /\ event' = Event("rejected", "none", <<>>)
                /\ UNCHANGED <<form, transactions, editingTransaction, nextId, journal>>
           ELSE /\ event' = Event(IF update THEN "update" ELSE "add", "none", <<>>)
                /\ transactions' = updated
                /\ journal' = updated
                /\ editingTransaction' = IF update THEN NoFormTransaction
                                         ELSE editingTransaction
                /\ nextId' = IF update THEN nextId ELSE nextId + Len(newTransactions)
                /\ form' = IF editingTransaction # NoFormTransaction THEN form
                           ELSE splitEffect(form, [form EXCEPT !.summary = "",
                                                               !.amount = EmptyText,
                                                               !.amountA = EmptyText,
                                                               !.amountB = EmptyText])
    /\ FormFrame

\* The edit button of a row (App.handleEditTransaction): setEditingTransaction(t),
\* and the effect of the form.
onEdit ==
    /\ Click
    /\ \E i \in 1..Len(transactions) :
        /\ editingTransaction' = transactions[i]
        /\ form' = IF editingTransaction = transactions[i] THEN form
                   ELSE splitEffect(form, editEffect(form, transactions[i]))
    /\ event' = Event("edit", "none", <<>>)
    /\ UNCHANGED <<transactions, nextId, journal>>
    /\ FormFrame

onCancelEdit ==
    /\ Click
    /\ editingTransaction # NoFormTransaction
    /\ editingTransaction' = NoFormTransaction
    /\ event' = Event("cancel", "none", <<>>)
    /\ UNCHANGED <<form, transactions, nextId, journal>>
    /\ FormFrame

\* The remove button of a row (App.handleDeleteTransaction), confirmed, up to
\* the upload it issues.
onDelete ==
    /\ Click
    /\ \E i \in 1..Len(transactions) :
        LET updated == SelectSeq(transactions, LAMBDA t : t.id # transactions[i].id)
        IN  /\ transactions' = updated
            /\ journal' = updated
    /\ event' = Event("delete", "none", <<>>)
    /\ UNCHANGED <<form, editingTransaction, nextId>>
    /\ FormFrame

FormNext ==
    \/ setType
    \/ setSource
    \/ setDestination
    \/ setDestinationA
    \/ setDestinationB
    \/ setAmount
    \/ setIsSplit
    \/ handleAmountAChange
    \/ handleAmountBChange
    \/ handleSubmit
    \/ onEdit
    \/ onCancelEdit
    \/ onDelete

FormSpec == FormInit /\ [][FormNext]_vars

----------------------------------------------------------------------------
(* Properties of the form *)

Stored(list) == {list[i] : i \in 1..Len(list)}
\* The last step was handleSubmit: it returned early, or called onSubmit.
SubmitOps == {"add", "update", "rejected"}
\* What the invariant of the persisted collection asks of a transaction, ids
\* being the ids drawn so far.
WellFormed(t, ids) ==
    /\ t.id \in ids
    /\ t.source # ""
    /\ t.amount \in Int
    /\ t.type \in {"INCOME", "TRANSFER"} => t.destination # ""
    /\ t.type = "EXPENSE" => t.destination # ""
\* An entry that cannot become such a transaction.
Violating(f) ==
    \/ f.source = ""
    \/ f.amount = EmptyText
    \/ f.type \in {"INCOME", "TRANSFER"} /\ f.destination = ""

\* C28: a submission without a source, without an amount, or of an income or
\* a transfer without a destination, is rejected, and a rejected submission
\* changes neither the collection nor what was uploaded.  An accepted one
\* uploads the collection it sets, every transaction of which has an id that
\* was drawn, a source, an amount that is a number and a destination; and the
\* transaction of a single expense entered without a destination is stored
\* under the uncategorized label.
C28_PersistedTransactionsWellFormed ==
    [][event'.op \in SubmitOps =>
        /\ Violating(form) => event'.op = "rejected"
        /\ event'.op = "rejected" => transactions' = transactions /\ journal' = journal
        /\ event'.op # "rejected" =>
            /\ journal' = transactions'
            /\ \A t \in Stored(transactions') : WellFormed(t, 1..(nextId' - 1))
            /\ \A t \in Stored(transactions') \ Stored(transactions) :
                    /\ t.amount \in {ToNumber(form.amount), ToNumber(form.amountA),
                                     ToNumber(form.amountB)}
                    /\ (form.type = "EXPENSE" /\ form.destination = ""
                        /\ (editingTransaction # NoFormTransaction \/ ~form.isSplit))
                       => t.destination = UNCATEGORIZED]_vars
\* An expense was stored under the uncategorized label, and the last
\* submission was rejected.
C28_Witness ==
    /\ event.op = "rejected"
    /\ journal # <<>>
    /\ \E t \in Stored(transactions) : t.destination = UNCATEGORIZED /\ t.id > 1

\* C29: no transaction of the collection has a negative amount.
C29_NoNegativeAmountStored ==
    \A t \in Stored(transactions) : t.amount >= 0

\* The transactions other than those with one id are in the collection after
\* the step as they were before it.
OthersUnchanged ==
    \/ transactions = <<>>
    \/ \E target \in Stored(transactions) :
        \A t \in Stored(transactions) : t.id # target.id => t \in Stored(transactions')
\* An accepted submission in split mode appended the two transactions it made.
AddedPair(distinct) ==
    \E t1, t2 \in Stored(transactions') :
        /\ transactions' = transactions \o <<t1, t2>>
        /\ t1.type = "EXPENSE" /\ t2.type = "EXPENSE"
        /\ t1.id # t2.id
        /\ \A t \in Stored(transactions) : t.id \notin {t1.id, t2.id}
        /\ t1.date = t2.date /\ t1.source = t2.source
        /\ t1.summary = t2.summary /\ t1.payer = t2.payer
        /\ t1.source = form.source /\ t1.summary = form.summary /\ t1.payer = form.payer
        /\ distinct => t1.destination # t2.destination

\* C30: a submission of an expense in split mode that is accepted appends
\* exactly two EXPENSE transactions with different, new ids, the same date,
\* source, summary and payer, and two different destinations; an update or a
\* removal leaves every transaction with another id as it was.
C30_SplitAddsIndependentPair ==
    [][/\ (event'.op \in {"add", "update"} /\ form.type = "EXPENSE" /\ form.isSplit)
            => AddedPair(TRUE)
       /\ event'.op \in {"update", "delete"} => OthersUnchanged]_vars

\* What holds of a split: outside edit mode the two transactions are appended
\* as C30 says, with the destinations of the two items, which are not empty
\* but may be the same; updates and removals leave the other ids alone; the
\* ids of the collection are pairwise different.
SplitAddsPairOutsideEditMode ==
    [][/\ (event'.op = "add" /\ form.type = "EXPENSE" /\ form.isSplit)
            => /\ AddedPair(FALSE)
               /\ editingTransaction = NoFormTransaction
               /\ transactions'[Len(transactions') - 1].destination = form.destinationA
               /\ transactions'[Len(transactions')].destination = form.destinationB
               /\ form.destinationA # "" /\ form.destinationB # ""
       /\ event'.op \in {"update", "delete"} => OthersUnchanged
       /\ \A i, j \in 1..Len(transactions') :
            transactions'[i].id = transactions'[j].id => i = j]_vars
\* A pair was added and one of the two was then updated or removed.
SplitPairThenChanged ==
    /\ event.op \in {"update", "delete"}
    /\ nextId = 4
    /\ \E t \in Stored(transactions) : t.id \in {2, 3}

\* The two split amounts are the default split of the total.
DefaultSplit(f) ==
    LET total == ToNumber(f.amount)
    IN  /\ f.amountA = Num(total \div 2)
        /\ f.amountB = Num(total - (total \div 2))
\* The step is an accepted submission of a split, outside edit mode.
SplitSubmitted ==
    /\ event'.op = "add"
    /\ form.type = "EXPENSE" /\ form.isSplit
    /\ editingTransaction = NoFormTransaction
\* The step changed the total or the split mode, and left the form in split
\* mode with a total.
TotalOrModeChanged ==
    /\ form'.amount # form.amount \/ form'.isSplit # form.isSplit
    /\ form'.isSplit /\ Truthy(form'.amount)
\* The step is an edit of one of the two split amounts.
ItemEdited ==
    /\ event'.op = "field"
    /\ form.isSplit /\ form'.isSplit
    /\ form'.amount = form.amount
    /\ form'.amountA # form.amountA \/ form'.amountB # form.amountB

\* C31: the two transactions of an accepted split carry the two split amounts
\* of the form, which sum to the number of the total box.  The split amounts
\* are set to floor(total/2) and total - floor(total/2) whenever the total or
\* the split mode changes in split mode, and they change otherwise only by an
\* edit of one of them, which keeps their sum equal to the total, or by the
\* reset after an accepted submission: without an edit of an item since, the
\* submitted amounts are the default split.
C31_SplitAmountsSumToTotal ==
    [][/\ SplitSubmitted =>
            LET n == Len(transactions')
            IN  /\ transactions'[n - 1].amount = ToNumber(form.amountA)
                /\ transactions'[n].amount = ToNumber(form.amountB)
                /\ transactions'[n - 1].amount + transactions'[n].amount
                     = ToNumber(form.amount)
       /\ TotalOrModeChanged => DefaultSplit(form')
       /\ ItemEdited =>
            ToNumber(form'.amountA) + ToNumber(form'.amountB) = ToNumber(form'.amount)
       /\ (form'.amountA # form.amountA \/ form'.amountB # form.amountB) =>
            \/ TotalOrModeChanged
            \/ ItemEdited
            \/ event'.op = "add" /\ form'.amountA = EmptyText /\ form'.amountB = EmptyText]_vars
\* In split mode with a total, the split amounts sum to it.
SplitAmountsSumInSplitMode ==
    (form.isSplit /\ Truthy(form.amount)) =>
        ToNumber(form.amountA) + ToNumber(form.amountB) = ToNumber(form.amount)
\* A total of 101 was split by default and stored as 50 and 51; and a split
\* with an edited item was stored.
C31_Witness ==
    /\ event.op = "add"
    /\ \E i \in 1..(Len(transactions) - 1) :
        /\ transactions[i].id + 1 = transactions[i + 1].id
        /\ transactions[i].amount = 50
        /\ transactions[i + 1].amount = 51
C31_WitnessEdited ==
    /\ event.op = "add"
    /\ \E i \in 1..(Len(transactions) - 1) :
        /\ transactions[i].id + 1 = transactions[i + 1].id
        /\ transactions[i].amount = 9
        /\ transactions[i + 1].amount = 92

----------------------------------------------------------------------------
(* The empty collection a load writes, and the path it was checked for *)

\* The uploads of the empty collection that the step left pending.
IssuedEmptyUploads ==
    {t \in BagToSet(inflight') :
        t.pc = "uploadEmpty" /\ CopiesIn(t, inflight') > CopiesIn(t, inflight)}

\* C32: the upload of the empty collection that a load issues is for the path
\* its existence check was answered for, with path_not_found; and the upload,
\* answered, replaces no transactions resource that the store holds.
C32_EmptyWriteGoesToCheckedPath ==
    [][/\ \A t \in IssuedEmptyUploads :
            /\ event'.op = "checkTx" /\ event'.reply = "path_not_found"
            /\ t.path = event'.path
       /\ (event'.op = "uploadEmpty" /\ event'.reply = "ok") =>
            remote[event'.path].kind = "absent"]_vars

\* What holds: the upload of the empty collection is issued in the step where
\* an existence check of a data file answered path_not_found, for the data
\* file of the profile that is active in the service at that moment; it is
\* for the checked path whenever the profile of the load is still active.
EmptyWriteGoesToActiveProfile ==
    [][\A t \in IssuedEmptyUploads :
            /\ event'.op = "checkTx" /\ event'.reply = "path_not_found"
            /\ t.path = getPath(svcProfile, DATA_FILE)
            /\ t.owner = svcProfile => t.path = event'.path]_vars

----------------------------------------------------------------------------
(* The registry under create, rename and delete *)

RegistryWrites == {"addProfileWrite", "renameWrite", "deleteWrite"}
RegistryReads == {"addProfileList", "renameList", "deleteList"}
\* The calls the step answered.
Answered ==
    {t \in BagToSet(inflight) :
        t.pc = event'.op /\ CopiesIn(t, inflight') < CopiesIn(t, inflight)}
\* The calls the step left pending.
Issued ==
    {t \in BagToSet(inflight') : CopiesIn(t, inflight') > CopiesIn(t, inflight)}
Names(doc) == {doc.names[i] : i \in 1..Len(doc.names)}

\* C33: the registry write of a create, rename or delete keeps every name
\* the registry stored before it, other than the profile the call is about
\* (and the new name of a rename).
C33_RegistryKeepsOtherProfiles ==
    [][(event'.op \in RegistryWrites /\ event'.reply = "ok") =>
            \E t \in Answered :
                Names(remote[REGISTRY_PATH]) \ {t.owner, t.arg}
                    \subseteq Names(remote'[REGISTRY_PATH])]_vars

\* What holds: when the registry read inside the call is answered with the
\* registry, the list the call then uploads keeps every name read, other than
\* the profile the call is about; when the read fails, or finds no registry,
\* the list is made from [Default] alone.
RegistryWriteKeepsNamesRead ==
    [][event'.op \in RegistryReads =>
            \A t \in Issued : t.pc \in RegistryWrites =>
                /\ event'.reply = "found" =>
                        Names(remote[REGISTRY_PATH]) \ {t.owner} \subseteq Names(t.doc)
                /\ event'.reply # "found" =>
                        Names(t.doc) \subseteq {"Default", t.owner, t.arg}]_vars

----------------------------------------------------------------------------
(* One profile, mutations one after the other, every call answered ok *)

MaxSerialClicks == 3   \* actions of the user in a session of serialized mutations

DataUploads == {"uploadTransactions", "uploadAfterDelete"}

\* The session starts on a store that holds a ledger, or on an empty store
\* (the first use of the application).
SerialInit ==
    /\ token \in BOOLEAN
    /\ dbx = token
    /\ svcProfile = "Default"
    /\ remote \in RemoteInit \cup {[p \in Paths |-> Absent]}
    /\ isAuthenticated = FALSE
    /\ transactions = <<>>
    /\ settings = DEFAULT_SETTINGS
    /\ profiles = <<"Default">>
    /\ currentProfile = "Default"
    /\ editingTransaction = NoTx
    /\ hasCheckedAuth = FALSE
    /\ inflight = EmptyBag
    /\ nextId = 2
    /\ clicks = MaxSerialClicks
    /\ alertMsg = "none"
    /\ event = Event("none", "none", <<>>)
    /\ check = NoCheck
    /\ listing = NoListing
    /\ halted = {}
    /\ journal = [base |-> <<>>, calls |-> <<>>, from |-> {}]
    /\ ViewIdle

\* The step answers no call with a failure, starts an add, update or remove
\* only when no upload of the collection is pending, and keeps the profile.
Serial ==
    /\ event'.reply \notin {"transport", "auth"}
    /\ event'.op \in {"add", "update", "delete"} => CountPc(inflight, DataUploads) = 0
    /\ svcProfile' = svcProfile
    /\ UNCHANGED viewVars

SerialNext ==
    \/ InitAuth /\ Serial
    \/ \E t \in BagToSet(inflight) : GetProfilesDone(t) /\ Serial
    \/ \E t \in BagToSet(inflight) : CheckTxDone(t) /\ Serial
    \/ \E t \in BagToSet(inflight) : DownloadTxDone(t) /\ Serial
    \/ \E t \in BagToSet(inflight) : UploadEmptyDone(t) /\ Serial
    \/ \E t \in BagToSet(inflight) : CheckSettingsDone(t) /\ Serial
    \/ \E t \in BagToSet(inflight) : LoadSettingsDone(t) /\ Serial
    \/ SubmitNew /\ Serial
    \/ SubmitEdit /\ Serial
    \/ handleEditTransaction /\ Serial
    \/ CancelEdit /\ Serial
    \/ handleDeleteTransaction /\ Serial
    \/ \E t \in BagToSet(inflight) : UploadDone(t) /\ t.pc \in DataUploads /\ Serial

SerialSpec == SerialInit /\ [][SerialNext]_vars

\* The step completed an add, update or remove (its upload was answered), or
\* the data half of a load (the download answered with the collection, or the
\* upload of the empty collection was answered).
Completed ==
    \/ event'.op \in DataUploads
    \/ event'.op = "downloadTx" /\ event'.reply = "found"
    \/ event'.op = "uploadEmpty"

\* C34: when an add, update, remove or load completes, the data file of the
\* active profile holds the in-memory collection.
C34_RemoteEqualsMemory ==
    [][Completed =>
            /\ remote'[getPath(svcProfile', DATA_FILE)].kind = "transactions"
            /\ remote'[getPath(svcProfile', DATA_FILE)].txs = transactions']_vars

\* What holds: an add, update or remove uploads the collection it sets; the
\* upload, answered, makes it the contents of the data file; a load sets the
\* collection it downloaded, or the empty one it uploaded; and the in-memory
\* collection changes in no other step.
UploadsCarryTheCollection ==
    [][/\ event'.op \in {"add", "update", "delete"} =>
            \A t \in Issued : t.pc \in DataUploads =>
                /\ t.doc = TxDoc(transactions')
                /\ t.path = getPath(svcProfile, DATA_FILE)
       /\ event'.op \in DataUploads \cup {"uploadEmpty"} =>
            \E t \in Answered : remote'[event'.path] = t.doc
       /\ (event'.op = "downloadTx" /\ event'.reply = "found") =>
            transactions' = remote[event'.path].txs
       /\ event'.op = "uploadEmpty" => transactions' = <<>>
       /\ transactions' # transactions =>
            \/ event'.op \in {"add", "update", "delete", "uploadEmpty"}
            \/ event'.op = "downloadTx" /\ event'.reply = "found"]_vars

\* The same sessions, with every add, update and remove started while no
\* call of a load is pending.
Quiet ==
    event'.op \in {"add", "update", "delete"} =>
        CountPc(inflight, LoadOps \cup {"getProfiles"}) = 0
QuietSpec == SerialInit /\ [][SerialNext /\ Quiet]_vars

\* What holds in those sessions: when an add, update, remove or load
\* completes, the data file of the active profile holds the in-memory
\* collection.
RemoteEqualsMemoryOutsideLoads ==
    [][Completed =>
            /\ remote'[getPath(svcProfile', DATA_FILE)].kind = "transactions"
            /\ remote'[getPath(svcProfile', DATA_FILE)].txs = transactions']_vars
\* A session of those: an add and then a remove have completed.
QuietSessionCompleted ==
    /\ event.op = "uploadAfterDelete"
    /\ Len(journal.calls) = 2

====
